---------------------------- MODULE Spec2Model ----------------------------
(***************************************************************************)
(* A model of Refract's symmetry pipeline (src/src/utils/generateSymmetries.js) *)
(* and of its high-resolution exporter (src/src/utils/exportImage.js).     *)
(*                                                                         *)
(* Real-valued coordinates.  A midpoint coordinate is the rational n/Den   *)
(* with n in 0..Den; every length that the code keeps as a JavaScript      *)
(* number (midX, midY, the source rectangles) is held here as an integer   *)
(* count of 1/Den pixel units, so midX = midpoint.x * imgWidth is the      *)
(* integer n * imgWidth.  Arithmetic is exact; for the working dimensions  *)
(* the exact quotient rounded half up is what Math.round gives on IEEE     *)
(* doubles for every pair of sides up to 6000 (ties included).             *)
(*                                                                         *)
(* Pixels.  A pixel value is the set of ingredients that are mixed in it.  *)
(* An ingredient is a pixel <<x, y>> of the canonical buffer, BG (the      *)
(* fill colour #1f2937) or CLEAR (transparent black, the content of a new  *)
(* canvas).  A value with one ingredient is an exact copy of it; a value   *)
(* with several is what the canvas produces when a drawImage is not        *)
(* aligned to the pixel grid (image smoothing is on by default) or when a  *)
(* partly transparent pixel is composited over another one.                *)
(*                                                                         *)
(* Canvas API (HTML Standard, "The 2D rendering context"):                 *)
(*  - canvas.width = v converts v to an unsigned long: the fraction of a   *)
(*    non-negative v is dropped;                                           *)
(*  - drawImage(image, ...) throws InvalidStateError when image is a       *)
(*    canvas whose width or height is 0; it draws nothing when image is an *)
(*    <img> of intrinsic width or height 0, or when sw or sh is 0;         *)
(*  - getImageData(sx, sy, sw, sh) throws IndexSizeError when sw or sh     *)
(*    is 0.                                                                *)
(***************************************************************************)
EXTENDS Integers, Sequences, FiniteSets, TLC

\* ------------------------------------------------------------------ bounds
\* Largest width and height of an image whose pixels are modelled.
MaxDim == 4
\* Denominator of the midpoint coordinates: midpoint.x, midpoint.y are n/Den.
Den == 4
\* Largest width and height of an image in the exporter's runs.
MaxExportDim == 3

\* --------------------------------------------------------------- constants
\* const maxDimension = 1024
maxDimension == 1024

\* ------------------------------------------------------------------ pixels
BG == <<-1, -1>>
CLEAR == <<-2, -2>>

Coords(w, h) == (0 .. (w - 1)) \X (0 .. (h - 1))

\* A canvas that was just created or resized: transparent black everywhere.
NewCanvas(w, h) ==
  [width |-> w, height |-> h, px |-> [p \in Coords(w, h) |-> {CLEAR}]]

\* ctx.fillStyle = '#1f2937'; ctx.fillRect(0, 0, w, h) on a canvas of w x h
FillBackground(c) ==
  [c EXCEPT !.px = [p \in Coords(c.width, c.height) |-> {BG}]]

\* Source-over compositing of one pixel: an opaque source replaces what is
\* below it, a transparent one leaves it, a partly transparent one mixes.
Over(src, dst) ==
  IF CLEAR \in src THEN (src \ {CLEAR}) \cup dst ELSE src

\* canvas.width = v, canvas.height = v (v in 1/Den units): unsigned long
ToCanvasSize(v) == v \div Den

\* ------------------------------------------------------- working dimensions
\* A slip: Math.floor in place of Math.round
RoundScaled_Floor(n, longer) == (n * maxDimension) \div longer

\* Math.round(n * (maxDimension / longer)) for integers n >= 0, longer > 0
RoundScaled(n, longer) == (2 * n * maxDimension + longer) \div (2 * longer)

\* The side whose length sets scaleFactor = maxDimension / side
ScaleSide(originalWidth, originalHeight) ==
  IF originalWidth > originalHeight THEN originalWidth ELSE originalHeight

\* A slip: only the width is compared with maxDimension
NeedsDownscale_WidthOnly(originalWidth, originalHeight) ==
  originalWidth > maxDimension

\* Whether the preview branch scales the image down
NeedsDownscale(originalWidth, originalHeight) ==
  originalWidth > maxDimension \/ originalHeight > maxDimension

\* imgWidth and imgHeight of generateSymmetries
WorkingDims(originalWidth, originalHeight, q) ==
  IF q = "preview" /\ NeedsDownscale(originalWidth, originalHeight)
  THEN [w |-> RoundScaled(originalWidth,
                          ScaleSide(originalWidth, originalHeight)),
        h |-> RoundScaled(originalHeight,
                          ScaleSide(originalWidth, originalHeight))]
  ELSE [w |-> originalWidth, h |-> originalHeight]

Qualities == {"preview", "high-res"}

\* ------------------------------------------------------------ the pipeline
\* An image element: absent (null), or decoded with a width and a height.
NoImage == [present |-> FALSE, width |-> 0, height |-> 0]
Image(w, h) == [present |-> TRUE, width |-> w, height |-> h]
\* A midpoint: absent (null), or { x: x/Den, y: y/Den }.
NoMidpoint == [present |-> FALSE, x |-> 0, y |-> 0]
Midpoint(x, y) == [present |-> TRUE, x |-> x, y |-> y]

\* The preprocessed canvas of generateSymmetries for rotation = 0 and
\* zoom = 1.0 (the values every caller passes): the background fill, then the
\* image drawn over the whole canvas.  Pixel <<x, y>> of the result is the
\* ingredient <<x, y>>.  An <img> of width or height 0 draws nothing.
Preprocess(img, w, h) ==
  LET filled == FillBackground(NewCanvas(w, h))
  IN IF img.width = 0 \/ img.height = 0
     THEN filled
     ELSE [filled EXCEPT !.px = [p \in Coords(w, h) |-> {p}]]

\* const midX = midpoint.x * imgWidth (in 1/Den units)
MidCoord(m, size) == m * size

\* const sourceRectangles = [...] (lengths in 1/Den units)
SourceRectangles(midX, midY, w, h) ==
  << [name |-> "topLeft", x |-> 0, y |-> 0,
      width |-> midX, height |-> midY],
     [name |-> "topRight", x |-> midX, y |-> 0,
      width |-> w * Den - midX, height |-> midY],
     [name |-> "bottomLeft", x |-> 0, y |-> midY,
      width |-> midX, height |-> h * Den - midY],
     [name |-> "bottomRight", x |-> midX, y |-> midY,
      width |-> w * Den - midX, height |-> h * Den - midY] >>

\* The source pixels (along one axis) under the unit-wide span that starts
\* at a/Den: one pixel when a is on the grid, two when it is not.
SrcCover(a) == (a \div Den) .. ((a + Den - 1) \div Den)

\* tempCtx.drawImage(sourceCanvas, x, y, width, height, 0, 0, width, height)
\* onto the new tempCanvas: nothing is drawn when width or height is 0.
ExtractQuadrant(sourceCanvas, sourceRect) ==
  LET w == ToCanvasSize(sourceRect.width)
      h == ToCanvasSize(sourceRect.height)
      blank == NewCanvas(w, h)
  IN IF sourceRect.width = 0 \/ sourceRect.height = 0
     THEN blank
     ELSE [blank EXCEPT !.px = [p \in Coords(w, h) |->
            Over(UNION { sourceCanvas.px[<<sx, sy>>] :
                           sx \in SrcCover(sourceRect.x + p[1] * Den),
                           sy \in SrcCover(sourceRect.y + p[2] * Den) },
                 blank.px[p])]]

\* Which source indexes are flipped on which axis (the if / else if chain)
FlipsHorizontally(sourceIndex) == sourceIndex = 1 \/ sourceIndex = 3
FlipsVertically(sourceIndex) == sourceIndex = 2 \/ sourceIndex = 3

\* flippedCtx.translate(t, 0); flippedCtx.scale(-1, 1) (t in 1/Den units):
\* the columns of tempCanvas that land on column i of the flipped canvas.
\* Column k of tempCanvas lands on the span [t - k - 1, t - k).
FlipCover(i, t, flipped) ==
  IF flipped
  THEN ((t - (i + 1) * Den) \div Den) .. ((t - i * Den - 1) \div Den)
  ELSE {i}

\* Step 2: the tile that acts as a top-left tile (sourceTileCanvas)
FlipTile(tempCanvas, sourceRect, sourceIndex) ==
  LET w == ToCanvasSize(sourceRect.width)
      h == ToCanvasSize(sourceRect.height)
      blank == NewCanvas(w, h)
      at(sx, sy) == IF sx < tempCanvas.width /\ sy < tempCanvas.height
                    THEN tempCanvas.px[<<sx, sy>>]
                    ELSE {CLEAR}
  IN IF sourceIndex = 0
     THEN tempCanvas
     ELSE [blank EXCEPT !.px = [p \in Coords(w, h) |->
            Over(UNION { at(sx, sy) :
                   sx \in FlipCover(p[1], sourceRect.width,
                                    FlipsHorizontally(sourceIndex)),
                   sy \in FlipCover(p[2], sourceRect.height,
                                    FlipsVertically(sourceIndex)) },
                 blank.px[p])]]

\* A slip: the mirrored copy lands one pixel off
MirrorCoord_OffByOne(x, size) == size - x

\* patternCtx.translate(size, 0); patternCtx.scale(-1, 1): the tile column
\* drawn on pattern column x (and the pattern column of tile column x).
MirrorCoord(x, size) == size - 1 - x

\* patternCtx.drawImage(sourceTileCanvas, 0, 0) under the current transform
DrawTile(canvas, tile, mirrorX, mirrorY) ==
  [canvas EXCEPT !.px = [p \in Coords(canvas.width, canvas.height) |->
     LET i == IF mirrorX THEN MirrorCoord(p[1], canvas.width) ELSE p[1]
         j == IF mirrorY THEN MirrorCoord(p[2], canvas.height) ELSE p[2]
     IN IF i \in 0 .. (tile.width - 1) /\ j \in 0 .. (tile.height - 1)
        THEN Over(tile.px[<<i, j>>], canvas.px[p])
        ELSE canvas.px[p]]]

\* A slip: the pattern canvas sized after the tile
PatternSize_OfTile(sourceTileCanvas, w, h) ==
  [width |-> sourceTileCanvas.width, height |-> sourceTileCanvas.height]

\* Step 3: const patternCanvas, its width and height
PatternSize(sourceTileCanvas, w, h) == [width |-> w, height |-> h]

\* A slip: the third copy mirrored on the wrong axis
Compose_ThirdCopyHorizontal(sourceTileCanvas, w, h) ==
  LET c0 == FillBackground(NewCanvas(w, h))
      c1 == DrawTile(c0, sourceTileCanvas, FALSE, FALSE)
      c2 == DrawTile(c1, sourceTileCanvas, TRUE, FALSE)
      c3 == DrawTile(c2, sourceTileCanvas, TRUE, FALSE)
  IN DrawTile(c3, sourceTileCanvas, TRUE, TRUE)

\* Steps 3 and 4: the background, then the four copies of the tile in the
\* order identity, horizontal mirror, vertical mirror, both mirrors.
Compose(sourceTileCanvas, w, h) ==
  LET size == PatternSize(sourceTileCanvas, w, h)
      c0 == FillBackground(NewCanvas(size.width, size.height))
      c1 == DrawTile(c0, sourceTileCanvas, FALSE, FALSE)
      c2 == DrawTile(c1, sourceTileCanvas, TRUE, FALSE)
      c3 == DrawTile(c2, sourceTileCanvas, FALSE, TRUE)
  IN DrawTile(c3, sourceTileCanvas, TRUE, TRUE)

\* patternCtx.getImageData(0, 0, imgWidth, imgHeight)
GetImageData(canvas) ==
  [width |-> canvas.width, height |-> canvas.height,
   dataLength |-> canvas.width * canvas.height * 4, px |-> canvas.px]

IsEmptyCanvas(c) == c.width = 0 \/ c.height = 0

\* createPatternFromSource: what it throws ("none" when it returns), and
\* its canvases.  The drawImage calls throw on a canvas of width or height 0,
\* getImageData throws on a zero width or height.
CreatePatternFromSource(sourceCanvas, sourceRect, w, h, sourceIndex) ==
  LET tempCanvas == ExtractQuadrant(sourceCanvas, sourceRect)
      tile == FlipTile(tempCanvas, sourceRect, sourceIndex)
      threw == IF IsEmptyCanvas(sourceCanvas) THEN "InvalidStateError"
               ELSE IF IsEmptyCanvas(tempCanvas) THEN "InvalidStateError"
               ELSE IF w = 0 \/ h = 0 THEN "IndexSizeError"
               ELSE "none"
  IN IF threw # "none"
     THEN [threw |-> threw, tempCanvas |-> NewCanvas(0, 0),
           tile |-> NewCanvas(0, 0), pattern |-> GetImageData(NewCanvas(0, 0))]
     ELSE [threw |-> "none", tempCanvas |-> tempCanvas, tile |-> tile,
           pattern |-> GetImageData(Compose(tile, w, h))]

\* generateSymmetries as one call: the exception it ends with ("none" when
\* it returns) and the array it returns.
GenerateSymmetriesResult(img, mp, q) ==
  IF ~img.present \/ ~mp.present
  THEN [threw |-> "none", patterns |-> << >>]
  ELSE LET d == WorkingDims(img.width, img.height, q)
           canvas == Preprocess(img, d.w, d.h)
           rects == SourceRectangles(MidCoord(mp.x, d.w), MidCoord(mp.y, d.h),
                                     d.w, d.h)
           r(i) == CreatePatternFromSource(canvas, rects[i + 1], d.w, d.h, i)
           failed == {i \in 0 .. 3 : r(i).threw # "none"}
       IN IF failed # {}
          THEN [threw |-> r(CHOOSE i \in failed : \A j \in failed : i <= j).threw,
                patterns |-> << >>]
          ELSE [threw |-> "none", patterns |-> [i \in 1 .. 4 |-> r(i - 1).pattern]]

\* ---------------------------------------------------------------- exporter
\* A JavaScript value passed as quadrantIndex: null, undefined, NaN, or the
\* number twice / 2 (so that 1.5 is a value).
JsNull == [kind |-> "null", twice |-> 0]
JsUndefined == [kind |-> "undefined", twice |-> 0]
JsNaN == [kind |-> "NaN", twice |-> 0]
JsNumber(twice) == [kind |-> "number", twice |-> twice]

\* quadrantIndex < 0 and quadrantIndex > 3: null converts to 0, undefined
\* and NaN compare false with everything.
JsLessThanZero(v) == v.kind = "number" /\ v.twice < 0
JsGreaterThanThree(v) == v.kind = "number" /\ v.twice > 6

\* The guard of exportHighResImage that throws 'Invalid parameters for export'
InvalidParameters(img, quadrantIndex) ==
  \/ ~img.present
  \/ quadrantIndex.kind = "null"
  \/ JsLessThanZero(quadrantIndex)
  \/ JsGreaterThanThree(quadrantIndex)

\* A slip: the export run at the quality of the previews
ExportQuality_Preview == "preview"

\* The quality exportHighResImage passes to generateSymmetries
ExportQuality == "high-res"

\* Whether array[v] is an element of an array of n elements
HasElement(n, v) ==
  /\ v.kind = "number"
  /\ v.twice % 2 = 0
  /\ v.twice \div 2 \in 0 .. (n - 1)

\* A slip: the pattern drawn one pixel to the right
DrawPatternOnExportCanvas_Shifted(pattern, w, h) ==
  [width |-> w, height |-> h,
   px |-> [p \in Coords(w, h) |->
             IF p[1] = 0 THEN {CLEAR}
             ELSE Over(pattern.px[<<p[1] - 1, p[2]>>], {CLEAR})]]

\* ctx.drawImage(tempCanvas, 0, 0, imgWidth, imgHeight) onto the new
\* exportCanvas of imgWidth x imgHeight, tempCanvas holding the pattern of
\* the same size (the high-res pattern has the image's size).
DrawPatternOnExportCanvas(pattern, w, h) ==
  [width |-> w, height |-> h,
   px |-> [p \in Coords(w, h) |-> Over(pattern.px[p], {CLEAR})]]

\* ------------------------------------------------------- export filenames
\* A string is the sequence of its characters.
\* const quadrantLabels = ['Top-Left', 'Top-Right', 'Bottom-Left',
\* 'Bottom-Right'], as Sidebar, FocusView and PreviewGrid each declare it
quadrantLabels ==
  << <<"T", "o", "p", "-", "L", "e", "f", "t">>,
     <<"T", "o", "p", "-", "R", "i", "g", "h", "t">>,
     <<"B", "o", "t", "t", "o", "m", "-", "L", "e", "f", "t">>,
     <<"B", "o", "t", "t", "o", "m", "-", "R", "i", "g", "h", "t">> >>

UpperCaseLetters ==
  <<"A", "B", "C", "D", "E", "F", "G", "H", "I", "J", "K", "L", "M",
    "N", "O", "P", "Q", "R", "S", "T", "U", "V", "W", "X", "Y", "Z">>

LowerCaseLetters ==
  <<"a", "b", "c", "d", "e", "f", "g", "h", "i", "j", "k", "l", "m",
    "n", "o", "p", "q", "r", "s", "t", "u", "v", "w", "x", "y", "z">>

\* str.toLowerCase()
RECURSIVE ToLowerCase(_)
ToLowerCase(str) ==
  IF str = << >> THEN << >>
  ELSE LET c == Head(str)
           lower ==
             IF \E i \in 1 .. Len(UpperCaseLetters) : UpperCaseLetters[i] = c
             THEN LowerCaseLetters[
                    CHOOSE i \in 1 .. Len(UpperCaseLetters) :
                      UpperCaseLetters[i] = c]
             ELSE c
       IN <<lower>> \o ToLowerCase(Tail(str))

\* \s of a regular expression, on the characters that occur here
IsWhiteSpace(c) == c \in {" ", "\t", "\n"}

\* str with its leading white space removed
RECURSIVE SkipWhiteSpace(_)
SkipWhiteSpace(str) ==
  IF str # << >> /\ IsWhiteSpace(Head(str))
  THEN SkipWhiteSpace(Tail(str))
  ELSE str

\* str.replace(/\s+/g, '-'): every run of white space becomes one hyphen
RECURSIVE ReplaceWhiteSpace(_)
ReplaceWhiteSpace(str) ==
  IF str = << >> THEN << >>
  ELSE IF IsWhiteSpace(Head(str))
  THEN <<"-">> \o ReplaceWhiteSpace(SkipWhiteSpace(str))
  ELSE <<Head(str)>> \o ReplaceWhiteSpace(Tail(str))

DecimalDigits == <<"0", "1", "2", "3", "4", "5", "6", "7", "8", "9">>

\* The decimal text a template literal gives a non-negative integer
RECURSIVE ToDecimal(_)
ToDecimal(n) ==
  IF n < 10 THEN <<DecimalDigits[n + 1]>>
  ELSE Append(ToDecimal(n \div 10), DecimalDigits[(n % 10) + 1])

\* A slip: the label used as it is displayed
ExportFilename_LabelAsDisplayed(index, t) ==
  <<"r", "e", "f", "r", "a", "c", "t", "-">>
    \o quadrantLabels[index + 1]
    \o <<"-">>
    \o ToDecimal(t)
    \o <<".", "p", "n", "g">>

\* `refract-${quadrantLabels[index].toLowerCase().replace(/\s+/g, '-')}-
\* ${Date.now()}.png`, index one of 0..3 and t what Date.now() returns
ExportFilename(index, t) ==
  <<"r", "e", "f", "r", "a", "c", "t", "-">>
    \o ReplaceWhiteSpace(ToLowerCase(quadrantLabels[index + 1]))
    \o <<"-">>
    \o ToDecimal(t)
    \o <<".", "p", "n", "g">>

\* ------------------------------------------------------------------- state
VARIABLES
  pc,                 \* where the running generateSymmetries call is
  imageElement,       \* its arguments
  midpoint,
  quality,
  imgWidth,           \* its locals
  imgHeight,
  preprocessedCanvas,
  sourceRectangles,
  tempCanvases,       \* tempCanvas of each finished createPatternFromSource
  tiles,              \* sourceTileCanvas of each finished call
  patterns,           \* the ImageData each finished call returned
  thrown,             \* the exception that ended the call, or "none"
  dims,               \* the last working-dimension computation: its
                      \* inputs and the imgWidth, imgHeight it gave
  exportPc,           \* where the running exportHighResImage call is
  exportArgs,         \* its arguments
  exportGenerated,    \* whether it has called generateSymmetries
  exportCanvas,       \* its exportCanvas
  exportError,        \* the error its promise is rejected with, or "none"
  blob,               \* what toBlob called back with: "null", "png", or
                      \* "none" before the callback
  exportDims,         \* the sizes of the last export of an image of any
                      \* size: the image, the pattern, the exportCanvas
  earlier,            \* an earlier generateSymmetries call: its inputs and
                      \* what it returned or threw
  component,          \* the component whose export handler runs, or "none"
  handlerPc,          \* where that handler is
  props,              \* the props the handler closed over
  isExporting,        \* state of Sidebar
  isGeneratingHighRes, \* state of FocusView
  alerts,             \* the messages the handler has shown with alert()
  downloads,          \* the filenames it has passed to downloadBlob
  exportCalls,        \* the exports it has started
  now,                \* what Date.now() returned to it
  studioImage,        \* state of SymmetryStudio: its originalImage,
  studioMidpoint,     \* its midpoint
  studioIndex,        \* and its activePreviewIndex
  inFlight,           \* the runs of Sidebar.handleExport that await their
                      \* export, each with the props it closed over
  presented,          \* the last download: what it was computed from and
                      \* the selection at the time of the download
  displaySize,        \* CanvasDisplay: its state
  isDragging,
  crosshairPosition,
  timer,              \* the waiting call of its debounced function
  lastPointer,        \* where the pointer was at the last down or move
  released,           \* whether a drag was released, and where
  midpointCalls,      \* the calls of onMidpointChange since the release
  lastEvent,          \* what happened last
  workflowStep,       \* App: its state
  sourceImage,
  uploadedImage,      \* ImagePrep: its state
  zoom,
  panX,
  panY,
  cropMode,
  mirrorAxis,
  selectedPreview,
  cropInset,
  isDraggingLeft,
  isDraggingRight,
  confirmClosure,     \* what its memoized handleConfirm closed over
  atConfirm,          \* what its state was at the last click on Next
  loads,              \* ImageUploader: the files being read and decoded
  lastSelected,       \* the file selected last
  delivered           \* the file of the last call of onImageUpload

pipelineVars == <<pc, imageElement, midpoint, quality, imgWidth, imgHeight,
                  preprocessedCanvas, sourceRectangles, tempCanvases, tiles,
                  patterns, thrown>>

exportVars == <<exportPc, exportArgs, exportGenerated, exportCanvas,
                exportError, blob>>

uiVars == <<component, handlerPc, props, isExporting, isGeneratingHighRes,
            alerts, downloads, exportCalls, now>>

\* The state of SymmetryStudio and of its Sidebar with several exports
studioVars == <<studioImage, studioMidpoint, studioIndex, inFlight,
                presented>>

\* The state of CanvasDisplay in SymmetryStudio, the waiting call of its
\* debounced function, and what the pointer and onMidpointChange last did
dragVars == <<displaySize, isDragging, crosshairPosition, timer, lastPointer,
              released, midpointCalls, lastEvent>>

\* The state of App
workflowVars == <<workflowStep, sourceImage>>

\* The state of ImagePrep
prepVars == <<uploadedImage, zoom, panX, panY, cropMode, mirrorAxis,
              selectedPreview, cropInset, isDraggingLeft, isDraggingRight,
              confirmClosure, atConfirm>>

\* The loads an ImageUploader has started
uploaderVars == <<loads, lastSelected, delivered>>

stageVars == <<workflowVars, prepVars, uploaderVars>>

appVars == <<studioVars, dragVars, stageVars>>

\* The state of generateSymmetries, of exportHighResImage and of their runs
coreVars == <<pipelineVars, dims, exportVars, exportDims, earlier>>

vars == <<pipelineVars, dims, exportVars, exportDims, earlier, uiVars,
          appVars>>

PipelineInit ==
  /\ pc = "idle"
  /\ imageElement = NoImage
  /\ midpoint = NoMidpoint
  /\ quality = "preview"
  /\ imgWidth = 0
  /\ imgHeight = 0
  /\ preprocessedCanvas = NewCanvas(0, 0)
  /\ sourceRectangles = << >>
  /\ tempCanvases = << >>
  /\ tiles = << >>
  /\ patterns = << >>
  /\ thrown = "none"

DimsInit ==
  dims = [originalWidth |-> 0, originalHeight |-> 0, quality |-> "preview",
          imgWidth |-> 0, imgHeight |-> 0]

ExportInit ==
  /\ exportPc = "idle"
  /\ exportArgs = [imageElement |-> NoImage, midpoint |-> NoMidpoint,
                   quadrantIndex |-> JsNull]
  /\ exportGenerated = FALSE
  /\ exportCanvas = NewCanvas(0, 0)
  /\ exportError = "none"
  /\ blob = "none"

ExportDimsInit ==
  exportDims = [originalWidth |-> 0, originalHeight |-> 0,
                patternWidth |-> 0, patternHeight |-> 0,
                canvasWidth |-> 0, canvasHeight |-> 0]

NoEarlierCall ==
  [recorded |-> FALSE, imageElement |-> NoImage, midpoint |-> NoMidpoint,
   quality |-> "preview", pc |-> "idle", patterns |-> << >>,
   thrown |-> "none"]

EarlierInit == earlier = NoEarlierCall

NoProps ==
  [originalImage |-> NoImage, midpoint |-> NoMidpoint, index |-> JsNull]

UiInit ==
  /\ component = "none"
  /\ handlerPc = "idle"
  /\ props = NoProps
  /\ isExporting = FALSE
  /\ isGeneratingHighRes = FALSE
  /\ alerts = << >>
  /\ downloads = << >>
  /\ exportCalls = 0
  /\ now = 0

NothingPresented ==
  [any |-> FALSE, midpoint |-> NoMidpoint, index |-> JsNull,
   latestMidpoint |-> NoMidpoint, latestIndex |-> JsNull]

\* useState(null), useState({ x: 0.5, y: 0.5 }), useState(null)
StudioInit ==
  /\ studioImage = NoImage
  /\ studioMidpoint = Midpoint(Den \div 2, Den \div 2)
  /\ studioIndex = JsNull
  /\ inFlight = << >>
  /\ presented = NothingPresented

\* No call of the debounced function is waiting
NoTimer == [armed |-> FALSE, arg |-> NoMidpoint, remaining |-> 0]

\* No drag was released yet
NothingReleased == [any |-> FALSE, position |-> NoMidpoint]

\* onMidpointChange was not called
NoMidpointCall == [count |-> 0, last |-> NoMidpoint]

\* useState({ width: 0, height: 0 }), useState(false), useState(midpoint),
\* useRef(debounce(...))
DragInit ==
  /\ displaySize = [width |-> 0, height |-> 0]
  /\ isDragging = FALSE
  /\ crosshairPosition = Midpoint(Den \div 2, Den \div 2)
  /\ timer = NoTimer
  /\ lastPointer = NoMidpoint
  /\ released = NothingReleased
  /\ midpointCalls = NoMidpointCall
  /\ lastEvent = "none"

\* No image was confirmed
NoSourceImage == [present |-> FALSE]

\* useState(1), useState(null)
WorkflowInit ==
  /\ workflowStep = 1
  /\ sourceImage = NoSourceImage

\* No image was uploaded
NoUpload == [present |-> FALSE, file |-> ""]

\* { left: 0, right: 0, top: 0, bottom: 0 }
NoCropInset == [left |-> 0, right |-> 0, top |-> 0, bottom |-> 0]

\* The useState(...) of ImagePrep, and handleConfirm of its first render
PrepInit ==
  /\ uploadedImage = NoUpload
  /\ zoom = 50
  /\ panX = 50
  /\ panY = 50
  /\ cropMode = FALSE
  /\ mirrorAxis = "vertical"
  /\ selectedPreview = JsNull
  /\ cropInset = NoCropInset
  /\ isDraggingLeft = FALSE
  /\ isDraggingRight = FALSE
  /\ confirmClosure = [mirrorAxis |-> "vertical", selectedPreview |-> JsNull,
                       cropInset |-> NoCropInset]
  /\ atConfirm = [mirrorAxis |-> "vertical", selectedPreview |-> JsNull,
                  cropInset |-> NoCropInset]

\* No file was selected
UploaderInit ==
  /\ loads = << >>
  /\ lastSelected = ""
  /\ delivered = ""

Init ==
  PipelineInit /\ DimsInit /\ ExportInit /\ ExportDimsInit /\ EarlierInit
    /\ UiInit /\ StudioInit /\ DragInit /\ WorkflowInit /\ PrepInit
    /\ UploaderInit

Images == {NoImage} \cup {Image(w, h) : w \in 0 .. MaxDim, h \in 0 .. MaxDim}
Midpoints == {NoMidpoint} \cup {Midpoint(x, y) : x \in 0 .. Den, y \in 0 .. Den}

\* generateSymmetries(imageElement, midpoint, 0, 1.0, quality) up to the map
\* over sourceRectangles; `return []` when an argument is missing.
GenerateSymmetries(img, mp, q) ==
  /\ pc = "idle"
  /\ imageElement' = img
  /\ midpoint' = mp
  /\ quality' = q
  /\ tempCanvases' = << >>
  /\ tiles' = << >>
  /\ patterns' = << >>
  /\ thrown' = "none"
  /\ UNCHANGED <<dims, exportVars, exportDims, earlier, uiVars, appVars>>
  /\ IF ~img.present \/ ~mp.present
     THEN /\ pc' = "returned"
          /\ UNCHANGED <<imgWidth, imgHeight, preprocessedCanvas,
                         sourceRectangles>>
     ELSE LET d == WorkingDims(img.width, img.height, q)
          IN /\ pc' = "map"
             /\ imgWidth' = d.w
             /\ imgHeight' = d.h
             /\ preprocessedCanvas' = Preprocess(img, d.w, d.h)
             /\ sourceRectangles' =
                  SourceRectangles(MidCoord(mp.x, d.w), MidCoord(mp.y, d.h),
                                   d.w, d.h)

\* A slip: the tile drawn back onto the canvas it was extracted from
MapStep_DrawsOnSource ==
  /\ pc = "map"
  /\ LET index == Len(patterns)
         r == CreatePatternFromSource(preprocessedCanvas,
                                      sourceRectangles[index + 1],
                                      imgWidth, imgHeight, index)
     IN IF r.threw # "none"
        THEN /\ pc' = "threw"
             /\ thrown' = r.threw
             /\ UNCHANGED <<tempCanvases, tiles, patterns, preprocessedCanvas>>
        ELSE /\ tempCanvases' = Append(tempCanvases, r.tempCanvas)
             /\ tiles' = Append(tiles, r.tile)
             /\ patterns' = Append(patterns, r.pattern)
             /\ preprocessedCanvas' =
                  DrawTile(preprocessedCanvas, r.tile, FALSE, FALSE)
             /\ pc' = IF index = 3 THEN "returned" ELSE "map"
             /\ UNCHANGED thrown
  /\ UNCHANGED <<imageElement, midpoint, quality, imgWidth, imgHeight,
                 sourceRectangles, dims, exportVars, exportDims, earlier,
                 uiVars, appVars>>

\* One callback of sourceRectangles.map: createPatternFromSource on the
\* next rectangle.  An exception ends generateSymmetries.
MapStep ==
  /\ pc = "map"
  /\ LET index == Len(patterns)
         r == CreatePatternFromSource(preprocessedCanvas,
                                      sourceRectangles[index + 1],
                                      imgWidth, imgHeight, index)
     IN IF r.threw # "none"
        THEN /\ pc' = "threw"
             /\ thrown' = r.threw
             /\ UNCHANGED <<tempCanvases, tiles, patterns>>
        ELSE /\ tempCanvases' = Append(tempCanvases, r.tempCanvas)
             /\ tiles' = Append(tiles, r.tile)
             /\ patterns' = Append(patterns, r.pattern)
             /\ pc' = IF index = 3 THEN "returned" ELSE "map"
             /\ UNCHANGED thrown
  /\ UNCHANGED <<imageElement, midpoint, quality, imgWidth, imgHeight,
                 preprocessedCanvas, sourceRectangles, dims, exportVars,
                 exportDims, earlier, uiVars, appVars>>

\* A slip: the rectangles computed once per image and kept, so that the
\* next call on the image, with another midpoint, maps over the old ones
NextCall_KeepsRectangles ==
  /\ pc \in {"returned", "threw"}
  /\ imageElement.present
  /\ midpoint.present
  /\ earlier.midpoint.present
  /\ midpoint' = earlier.midpoint
  /\ pc' = "map"
  /\ tempCanvases' = << >>
  /\ tiles' = << >>
  /\ patterns' = << >>
  /\ thrown' = "none"
  /\ UNCHANGED <<imageElement, quality, imgWidth, imgHeight,
                 preprocessedCanvas, sourceRectangles, dims, exportVars,
                 exportDims, earlier, uiVars, appVars>>

\* The call is over and its locals are gone; the next call starts from
\* scratch (the module keeps no state between calls).
NextCall ==
  /\ pc \in {"returned", "threw"}
  /\ pc' = "idle"
  /\ imageElement' = NoImage
  /\ midpoint' = NoMidpoint
  /\ quality' = "preview"
  /\ imgWidth' = 0
  /\ imgHeight' = 0
  /\ preprocessedCanvas' = NewCanvas(0, 0)
  /\ sourceRectangles' = << >>
  /\ tempCanvases' = << >>
  /\ tiles' = << >>
  /\ patterns' = << >>
  /\ thrown' = "none"
  /\ UNCHANGED <<dims, exportVars, exportDims, earlier, uiVars, appVars>>

Next ==
  \/ \E img \in Images, mp \in Midpoints, q \in Qualities :
       GenerateSymmetries(img, mp, q)
  \/ MapStep
  \/ NextCall

Spec == Init /\ [][Next]_vars

\* ------------------------------------------------------- repeated calls
MaxRepeatDim == 2

RepeatImages ==
  {NoImage} \cup {Image(w, h) : w \in 1 .. MaxRepeatDim, h \in 1 .. MaxRepeatDim}

RepeatMidpoints ==
  {NoMidpoint, Midpoint(Den \div 2, Den \div 2), Midpoint(1, Den - 1),
   Midpoint(0, Den \div 2), Midpoint(Den \div 2, Den)}

\* The caller keeps what a call returned or threw, with the inputs it
\* passed (as the useMemo of PreviewGrid keeps symmetricalPatterns); the
\* call is over.
RememberCall ==
  /\ pc \in {"returned", "threw"}
  /\ ~earlier.recorded
  /\ earlier' = [recorded |-> TRUE, imageElement |-> imageElement,
                 midpoint |-> midpoint, quality |-> quality, pc |-> pc,
                 patterns |-> patterns, thrown |-> thrown]
  /\ pc' = "idle"
  /\ imageElement' = NoImage
  /\ midpoint' = NoMidpoint
  /\ quality' = "preview"
  /\ imgWidth' = 0
  /\ imgHeight' = 0
  /\ preprocessedCanvas' = NewCanvas(0, 0)
  /\ sourceRectangles' = << >>
  /\ tempCanvases' = << >>
  /\ tiles' = << >>
  /\ patterns' = << >>
  /\ thrown' = "none"
  /\ UNCHANGED <<dims, exportVars, exportDims, uiVars, appVars>>

RepeatNext ==
  \/ \E img \in RepeatImages, mp \in RepeatMidpoints, q \in Qualities :
       GenerateSymmetries(img, mp, q)
  \/ MapStep
  \/ NextCall
  \/ RememberCall

RepeatSpec == Init /\ [][RepeatNext]_vars

\* ------------------------------------------- working dimensions, any size
\* Image sides: small ones, the ones around maxDimension, and large ones.
Sides ==
  (0 .. MaxDim)
    \cup ((maxDimension - 1) .. (maxDimension + MaxDim))
    \cup {1500, 2000, 2047, 2048, 2049, 3000, 4000, 4096}

\* Lines 15-39 of generateSymmetries on an image of any size
ComputeWorkingDims(ow, oh, q) ==
  /\ dims' = [originalWidth |-> ow, originalHeight |-> oh, quality |-> q,
              imgWidth |-> WorkingDims(ow, oh, q).w,
              imgHeight |-> WorkingDims(ow, oh, q).h]
  /\ UNCHANGED <<pipelineVars, exportVars, exportDims, earlier, uiVars, appVars>>

DimsNext ==
  \E ow \in Sides, oh \in Sides, q \in Qualities : ComputeWorkingDims(ow, oh, q)

DimsSpec == Init /\ [][DimsNext]_vars

\* --------------------------------------------------- the exporter's runs
ExportImages ==
  {NoImage} \cup {Image(w, h) : w \in 0 .. MaxExportDim, h \in 0 .. MaxExportDim}

\* null, undefined, NaN and the numbers -1, -0.5, 0, 0.5, ..., 4
QuadrantIndexValues ==
  {JsNull, JsUndefined, JsNaN} \cup {JsNumber(t) : t \in (-2) .. 8}

\* exportHighResImage(imageElement, midpoint, 0, 1.0, quadrantIndex) up to
\* the toBlob call.  An exception rejects the promise the function returns.
ExportHighResImageCall(img, mp, quadrantIndex) ==
  /\ exportPc = "idle"
  /\ blob' = "none"
  /\ exportArgs' = [imageElement |-> img, midpoint |-> mp,
                    quadrantIndex |-> quadrantIndex]
  /\ IF InvalidParameters(img, quadrantIndex)
     THEN /\ exportPc' = "rejected"
          /\ exportError' = "Invalid parameters for export"
          /\ exportGenerated' = FALSE
          /\ UNCHANGED exportCanvas
     ELSE LET g == GenerateSymmetriesResult(img, mp, ExportQuality)
          IN /\ exportGenerated' = TRUE
             /\ IF g.threw # "none"
                THEN /\ exportPc' = "rejected"
                     /\ exportError' = g.threw
                     /\ UNCHANGED exportCanvas
                ELSE IF ~HasElement(Len(g.patterns), quadrantIndex)
                THEN /\ exportPc' = "rejected"
                     /\ exportError' = "Failed to generate pattern"
                     /\ UNCHANGED exportCanvas
                ELSE /\ exportPc' = "toBlob"
                     /\ exportError' = "none"
                     /\ exportCanvas' =
                          DrawPatternOnExportCanvas(
                            g.patterns[quadrantIndex.twice \div 2 + 1],
                            img.width, img.height)

\* exportHighResImage called on its own
ExportHighResImage(img, mp, quadrantIndex) ==
  /\ ExportHighResImageCall(img, mp, quadrantIndex)
  /\ UNCHANGED <<pipelineVars, dims, exportDims, earlier, uiVars, appVars>>

\* A slip: the promise resolved with whatever toBlob hands over
ToBlobCallback_ResolvesNull(hasBlob) ==
  /\ exportPc = "toBlob"
  /\ blob' = IF hasBlob THEN "png" ELSE "null"
  /\ exportPc' = "resolved"
  /\ exportError' = "none"
  /\ UNCHANGED <<exportArgs, exportGenerated, exportCanvas, pipelineVars, dims,
                 exportDims, earlier, uiVars, appVars>>

\* The callback of exportCanvas.toBlob, with a blob or with null
ToBlobCallback(hasBlob) ==
  /\ exportPc = "toBlob"
  /\ blob' = IF hasBlob THEN "png" ELSE "null"
  /\ IF hasBlob
     THEN exportPc' = "resolved" /\ exportError' = "none"
     ELSE exportPc' = "rejected" /\ exportError' = "Failed to create blob"
  /\ UNCHANGED <<exportArgs, exportGenerated, exportCanvas, pipelineVars, dims,
                 exportDims, earlier, uiVars, appVars>>

\* The promise is settled; the next call starts from scratch.
NextExport ==
  /\ exportPc \in {"resolved", "rejected"}
  /\ exportPc' = "idle"
  /\ exportArgs' = [imageElement |-> NoImage, midpoint |-> NoMidpoint,
                    quadrantIndex |-> JsNull]
  /\ exportGenerated' = FALSE
  /\ exportCanvas' = NewCanvas(0, 0)
  /\ exportError' = "none"
  /\ blob' = "none"
  /\ UNCHANGED <<pipelineVars, dims, exportDims, earlier, uiVars, appVars>>

ExportNext ==
  \/ \E img \in ExportImages, mp \in Midpoints, qi \in QuadrantIndexValues :
       ExportHighResImage(img, mp, qi)
  \/ \E hasBlob \in BOOLEAN : ToBlobCallback(hasBlob)
  \/ NextExport

ExportSpec == Init /\ [][ExportNext]_vars

\* ------------------------------------------------ exports of any size
\* The sides of an image that is exported
ExportSides == Sides \ {0}

\* The sizes in exportHighResImage on an image of any size: imgWidth and
\* imgHeight read from the image, the pattern generateSymmetries returns at
\* the quality passed, and the exportCanvas.
ExportDimensions(ow, oh) ==
  /\ exportDims' =
       [originalWidth |-> ow, originalHeight |-> oh,
        patternWidth |-> WorkingDims(ow, oh, ExportQuality).w,
        patternHeight |-> WorkingDims(ow, oh, ExportQuality).h,
        canvasWidth |-> ow, canvasHeight |-> oh]
  /\ UNCHANGED <<pipelineVars, dims, exportVars, earlier, uiVars, appVars>>

ExportDimsNext == \E ow \in ExportSides, oh \in ExportSides : ExportDimensions(ow, oh)

ExportDimsSpec == Init /\ [][ExportDimsNext]_vars

\* ------------------------------------------- the export handlers of the UI
\* The midpoint prop, which SymmetryStudio always holds: the centre, an
\* edge, a corner
UiMidpoints == {Midpoint(x, y) : x \in {0, Den \div 2}, y \in {Den \div 2, Den}}

\* What Date.now() may return
Times == {0, 9, 10, 1709}

\* The guard of Sidebar.handleExport that alerts and returns
NoPreviewToExport(originalImage, activePreviewIndex) ==
  activePreviewIndex.kind = "null" \/ ~originalImage.present

\* Sidebar.handleExport, from the click to its await: the guard, then
\* setIsExporting(true) and the call of exportHighResImage with rotation 0
\* and zoom 1.0, which runs up to its toBlob call or its throw.
HandleExport(originalImage, mp, activePreviewIndex) ==
  /\ handlerPc = "idle"
  /\ component' = "Sidebar"
  /\ props' = [originalImage |-> originalImage, midpoint |-> mp,
               index |-> activePreviewIndex]
  /\ IF NoPreviewToExport(originalImage, activePreviewIndex)
     THEN /\ alerts' = Append(alerts, "Please select a preview to export")
          /\ handlerPc' = "finished"
          /\ UNCHANGED <<isExporting, exportCalls, exportVars>>
     ELSE /\ isExporting' = TRUE
          /\ exportCalls' = exportCalls + 1
          /\ ExportHighResImageCall(originalImage, mp, activePreviewIndex)
          /\ handlerPc' = "awaiting"
          /\ UNCHANGED alerts
  /\ UNCHANGED <<isGeneratingHighRes, downloads, now, pipelineVars, dims,
                 exportDims, earlier, appVars>>

\* A slip: no finally block, isExporting is left as it is
HandleExportResume_NoFinally(t) ==
  /\ component = "Sidebar"
  /\ handlerPc = "awaiting"
  /\ exportPc \in {"resolved", "rejected"}
  /\ IF exportPc = "resolved" /\ HasElement(Len(quadrantLabels), props.index)
     THEN /\ now' = t
          /\ downloads' =
               Append(downloads, ExportFilename(props.index.twice \div 2, t))
          /\ UNCHANGED alerts
     ELSE /\ alerts' =
               Append(alerts, "Failed to export image. Please try again.")
          /\ UNCHANGED <<downloads, now>>
  /\ handlerPc' = "finished"
  /\ UNCHANGED <<isExporting, component, props, isGeneratingHighRes,
                 exportCalls, exportVars, pipelineVars, dims, exportDims,
                 earlier, appVars>>

\* Sidebar.handleExport after its await, the promise being settled: the
\* rest of the try block (the filename, downloadBlob) when it is resolved,
\* the catch block when it is rejected or quadrantLabels[index] is
\* undefined, then the finally block.
HandleExportResume(t) ==
  /\ component = "Sidebar"
  /\ handlerPc = "awaiting"
  /\ exportPc \in {"resolved", "rejected"}
  /\ IF exportPc = "resolved" /\ HasElement(Len(quadrantLabels), props.index)
     THEN /\ now' = t
          /\ downloads' =
               Append(downloads, ExportFilename(props.index.twice \div 2, t))
          /\ UNCHANGED alerts
     ELSE /\ alerts' =
               Append(alerts, "Failed to export image. Please try again.")
          /\ UNCHANGED <<downloads, now>>
  /\ isExporting' = FALSE
  /\ handlerPc' = "finished"
  /\ UNCHANGED <<component, props, isGeneratingHighRes, exportCalls,
                 exportVars, pipelineVars, dims, exportDims, earlier, appVars>>

\* FocusView.handleDownload and generateHighResExport, from the click to the
\* await of the toBlob promise: a silent return without image or index;
\* else the pattern is generated and drawn, an exception being caught at
\* once (alert, then setIsGeneratingHighRes(false)).
GenerateHighResExport(originalImage, mp, quadrantIndex) ==
  /\ handlerPc = "idle"
  /\ exportPc = "idle"
  /\ component' = "FocusView"
  /\ props' = [originalImage |-> originalImage, midpoint |-> mp,
               index |-> quadrantIndex]
  /\ IF ~originalImage.present \/ quadrantIndex.kind = "null"
     THEN /\ handlerPc' = "finished"
          /\ UNCHANGED <<alerts, isGeneratingHighRes, exportCalls, exportVars>>
     ELSE LET g == GenerateSymmetriesResult(originalImage, mp, "high-res")
          IN /\ exportCalls' = exportCalls + 1
             /\ exportArgs' = [imageElement |-> originalImage, midpoint |-> mp,
                               quadrantIndex |-> quadrantIndex]
             /\ exportGenerated' = TRUE
             /\ blob' = "none"
             /\ IF g.threw # "none"
                     \/ ~HasElement(Len(g.patterns), quadrantIndex)
                THEN /\ exportError' =
                          IF g.threw # "none" THEN g.threw
                          ELSE "Failed to generate high-resolution pattern"
                     /\ alerts' =
                          Append(alerts,
                            "Failed to generate high-resolution image. Please try again.")
                     /\ isGeneratingHighRes' = FALSE
                     /\ handlerPc' = "finished"
                     /\ UNCHANGED <<exportPc, exportCanvas>>
                ELSE /\ exportPc' = "toBlob"
                     /\ exportError' = "none"
                     /\ exportCanvas' =
                          DrawPatternOnExportCanvas(
                            g.patterns[quadrantIndex.twice \div 2 + 1],
                            originalImage.width, originalImage.height)
                     /\ isGeneratingHighRes' = TRUE
                     /\ handlerPc' = "awaiting"
                     /\ UNCHANGED alerts
  /\ UNCHANGED <<isExporting, downloads, now, pipelineVars, dims, exportDims,
                 earlier, appVars>>

\* A slip: no finally block, isGeneratingHighRes is left as it is
GenerateHighResExportResume_NoFinally(t) ==
  /\ component = "FocusView"
  /\ handlerPc = "awaiting"
  /\ exportPc \in {"resolved", "rejected"}
  /\ IF exportPc = "resolved"
     THEN /\ now' = t
          /\ downloads' =
               Append(downloads, ExportFilename(props.index.twice \div 2, t))
          /\ exportCanvas' = NewCanvas(0, 0)
          /\ UNCHANGED alerts
     ELSE /\ alerts' =
               Append(alerts,
                 "Failed to generate high-resolution image. Please try again.")
          /\ UNCHANGED <<downloads, now, exportCanvas>>
  /\ UNCHANGED isGeneratingHighRes
  /\ handlerPc' = "finished"
  /\ UNCHANGED <<component, props, isExporting, exportCalls, exportPc,
                 exportArgs, exportGenerated, exportError, blob, pipelineVars,
                 dims, exportDims, earlier, appVars>>

\* generateHighResExport after its await: the filename, downloadBlob and
\* the clearing of the canvases when the promise is resolved, the catch
\* block when it is rejected, then the finally block.
GenerateHighResExportResume(t) ==
  /\ component = "FocusView"
  /\ handlerPc = "awaiting"
  /\ exportPc \in {"resolved", "rejected"}
  /\ IF exportPc = "resolved"
     THEN /\ now' = t
          /\ downloads' =
               Append(downloads, ExportFilename(props.index.twice \div 2, t))
          /\ exportCanvas' = NewCanvas(0, 0)
          /\ UNCHANGED alerts
     ELSE /\ alerts' =
               Append(alerts,
                 "Failed to generate high-resolution image. Please try again.")
          /\ UNCHANGED <<downloads, now, exportCanvas>>
  /\ isGeneratingHighRes' = FALSE
  /\ handlerPc' = "finished"
  /\ UNCHANGED <<component, props, isExporting, exportCalls, exportPc,
                 exportArgs, exportGenerated, exportError, blob, pipelineVars,
                 dims, exportDims, earlier, appVars>>

\* The handler has returned; the next click finds the components as they
\* were.
HandlerReturned ==
  /\ handlerPc = "finished"
  /\ component' = "none"
  /\ handlerPc' = "idle"
  /\ props' = NoProps
  /\ isExporting' = FALSE
  /\ isGeneratingHighRes' = FALSE
  /\ alerts' = << >>
  /\ downloads' = << >>
  /\ exportCalls' = 0
  /\ now' = 0
  /\ exportPc' = "idle"
  /\ exportArgs' = [imageElement |-> NoImage, midpoint |-> NoMidpoint,
                    quadrantIndex |-> JsNull]
  /\ exportGenerated' = FALSE
  /\ exportCanvas' = NewCanvas(0, 0)
  /\ exportError' = "none"
  /\ blob' = "none"
  /\ UNCHANGED <<pipelineVars, dims, exportDims, earlier, appVars>>

UiNext ==
  \/ \E img \in ExportImages, mp \in UiMidpoints, i \in QuadrantIndexValues :
       HandleExport(img, mp, i)
  \/ \E t \in Times : HandleExportResume(t)
  \/ \E img \in ExportImages, mp \in UiMidpoints, i \in QuadrantIndexValues :
       GenerateHighResExport(img, mp, i)
  \/ \E t \in Times : GenerateHighResExportResume(t)
  \/ \E hasBlob \in BOOLEAN : ToBlobCallback(hasBlob)
  \/ HandlerReturned

UiSpec == Init /\ [][UiNext]_vars

\* The browser calls the callback of every toBlob, and a settled promise
\* resumes the function that awaits it.
UiFairSpec ==
  /\ UiSpec
  /\ WF_vars(\E hasBlob \in BOOLEAN : ToBlobCallback(hasBlob))
  /\ WF_vars(\E t \in Times : HandleExportResume(t))
  /\ WF_vars(\E t \in Times : GenerateHighResExportResume(t))

\* -------------------------------------- SymmetryStudio and its Sidebar
\* The runs of handleExport that may await their export at one time
MaxInFlight == 2

\* The image SymmetryStudio is given
StudioImages == {Image(MaxExportDim - 1, MaxExportDim - 1)}

\* The midpoints CanvasDisplay reports: the centre and a corner
StudioMidpoints == {Midpoint(Den \div 2, Den \div 2), Midpoint(0, Den)}

\* The displayed size of the canvas, in pixels: nothing, or Den on a side
DisplaySizes ==
  {[width |-> w, height |-> h] : w \in {0, Den}, h \in {0, Den}}

\* The sync effect of CanvasDisplay after a render with midpoint mp:
\* if (!isDragging) setCrosshairPosition(midpoint)
SyncedCrosshair(dragging, crosshair, mp) ==
  IF dragging THEN crosshair ELSE mp

\* setOriginalImage(...) and the effects that follow it: setMidpoint({ x:
\* 0.5, y: 0.5 }); setActivePreviewIndex(null); in CanvasDisplay
\* updateDisplaySize() and the sync of the crosshair.
ImageLoaded(img, size) ==
  /\ studioImage' = img
  /\ studioMidpoint' = Midpoint(Den \div 2, Den \div 2)
  /\ studioIndex' = JsNull
  /\ displaySize' = size
  /\ crosshairPosition' =
       SyncedCrosshair(isDragging, crosshairPosition,
                       Midpoint(Den \div 2, Den \div 2))
  /\ lastEvent' = "load"
  /\ UNCHANGED <<inFlight, presented, isDragging, timer, lastPointer,
                 released, midpointCalls, coreVars, uiVars, stageVars>>

\* A click on preview index of PreviewGrid: onActivePreviewChange(index)
SelectPreview(index) ==
  /\ studioImage.present
  /\ studioIndex' = JsNumber(2 * index)
  /\ UNCHANGED <<studioImage, studioMidpoint, inFlight, presented, dragVars,
                 coreVars, uiVars, stageVars>>

\* onMidpointChange(mp) is setMidpoint(mp) of SymmetryStudio; CanvasDisplay
\* renders with the new midpoint and its sync effect runs.
OnMidpointChange(mp) ==
  /\ studioMidpoint' = mp
  /\ crosshairPosition' = SyncedCrosshair(isDragging, crosshairPosition, mp)

\* onMidpointChange(mp), called by CanvasDisplay after a drag
MidpointChanged(mp) ==
  /\ studioImage.present
  /\ ~isDragging
  /\ OnMidpointChange(mp)
  /\ UNCHANGED <<studioImage, studioIndex, inFlight, presented, displaySize,
                 isDragging, timer, lastPointer, released, midpointCalls,
                 lastEvent, coreVars, uiVars, stageVars>>

\* A slip: the button disabled only while no preview is selected
ExportButtonDisabled_IgnoresExporting == studioIndex.kind = "null"

\* disabled={activePreviewIndex === null || isExporting} of the export
\* button, as last rendered
ExportButtonDisabled == studioIndex.kind = "null" \/ isExporting

\* How exportHighResImage(img, mp, 0, 1.0, index) stands when it returns
\* its promise: rejected by a throw, or waiting for toBlob
ExportOutcome(img, mp, index) ==
  IF InvalidParameters(img, index) THEN "rejected"
  ELSE LET g == GenerateSymmetriesResult(img, mp, ExportQuality)
       IN IF g.threw # "none" \/ ~HasElement(Len(g.patterns), index)
          THEN "rejected"
          ELSE "toBlob"

\* A click on the export button, which is rendered with an image and
\* enabled: handleExport runs up to its await with the props of the last
\* render.
ClickExport ==
  /\ studioImage.present
  /\ ~ExportButtonDisabled
  /\ Len(inFlight) < MaxInFlight
  /\ IF NoPreviewToExport(studioImage, studioIndex)
     THEN UNCHANGED <<isExporting, inFlight>>
     ELSE /\ isExporting' = TRUE
          /\ inFlight' =
               Append(inFlight,
                      [midpoint |-> studioMidpoint, index |-> studioIndex,
                       settled |-> ExportOutcome(studioImage, studioMidpoint,
                                                 studioIndex)])
  /\ UNCHANGED <<studioImage, studioMidpoint, studioIndex, presented,
                 component, handlerPc, props, isGeneratingHighRes, alerts,
                 downloads, exportCalls, now, dragVars, coreVars, stageVars>>

\* The toBlob callback of the k-th waiting export, with a blob or null
StudioToBlobCallback(k, hasBlob) ==
  /\ k \in 1 .. Len(inFlight)
  /\ inFlight[k].settled = "toBlob"
  /\ inFlight' = [inFlight EXCEPT ![k].settled =
                    IF hasBlob THEN "resolved" ELSE "rejected"]
  /\ UNCHANGED <<studioImage, studioMidpoint, studioIndex, presented,
                 dragVars, coreVars, uiVars, stageVars>>

\* inFlight without its k-th element
WithoutRun(k) ==
  SubSeq(inFlight, 1, k - 1) \o SubSeq(inFlight, k + 1, Len(inFlight))

\* The k-th run of handleExport after its await: downloadBlob with the
\* blob and the index it closed over, or the alert; then
\* setIsExporting(false).
StudioResume(k) ==
  /\ k \in 1 .. Len(inFlight)
  /\ inFlight[k].settled \in {"resolved", "rejected"}
  /\ IF inFlight[k].settled = "resolved"
     THEN presented' = [any |-> TRUE, midpoint |-> inFlight[k].midpoint,
                        index |-> inFlight[k].index,
                        latestMidpoint |-> studioMidpoint,
                        latestIndex |-> studioIndex]
     ELSE UNCHANGED presented
  /\ isExporting' = FALSE
  /\ inFlight' = WithoutRun(k)
  /\ UNCHANGED <<studioImage, studioMidpoint, studioIndex, component,
                 handlerPc, props, isGeneratingHighRes, alerts, downloads,
                 exportCalls, now, dragVars, coreVars, stageVars>>

StudioNext ==
  \/ \E img \in StudioImages :
       ImageLoaded(img, [width |-> Den, height |-> Den])
  \/ \E index \in 0 .. 3 : SelectPreview(index)
  \/ \E mp \in StudioMidpoints : MidpointChanged(mp)
  \/ ClickExport
  \/ \E k \in 1 .. MaxInFlight, hasBlob \in BOOLEAN :
       StudioToBlobCallback(k, hasBlob)
  \/ \E k \in 1 .. MaxInFlight : StudioResume(k)

StudioSpec == Init /\ [][StudioNext]_vars

\* ------------------------------------------- the crosshair of CanvasDisplay
\* The time one step of the clock takes, in milliseconds
TickMs == 75

\* debounce(..., 150)
DebounceWait == 150

\* canvasRef.current.getBoundingClientRect(): the canvas lies Den pixels
\* from the left and from the top of the screen at its displayed size.
CanvasRect ==
  [left |-> Den, top |-> Den, width |-> displaySize.width,
   height |-> displaySize.height]

\* The pointer positions tried: left of the canvas, inside it, right of
\* it; above it and at half its height.
ScreenXs == {Den - 1, Den + 1, 2 * Den + 1}
ScreenYs == {Den - 1, Den + Den \div 2}

\* Math.max(0, Math.min(1, relative / extent)), in units of 1/Den
ClampToUnit(relative, extent) ==
  LET quotient == (relative * Den) \div extent
      atMostOne == IF quotient < Den THEN quotient ELSE Den
  IN IF atMostOne > 0 THEN atMostOne ELSE 0

\* A slip: the quotient as it is
ScreenToNormalized_Unclamped(screenX, screenY) ==
  IF ~studioImage.present \/ displaySize.width = 0 \/ displaySize.height = 0
  THEN Midpoint(Den \div 2, Den \div 2)
  ELSE Midpoint(((screenX - CanvasRect.left) * Den) \div CanvasRect.width,
                ((screenY - CanvasRect.top) * Den) \div CanvasRect.height)

\* screenToNormalized(screenX, screenY)
ScreenToNormalized(screenX, screenY) ==
  IF ~studioImage.present \/ displaySize.width = 0 \/ displaySize.height = 0
  THEN Midpoint(Den \div 2, Den \div 2)
  ELSE Midpoint(ClampToUnit(screenX - CanvasRect.left, CanvasRect.width),
                ClampToUnit(screenY - CanvasRect.top, CanvasRect.height))

\* A call debounced(arg): whatever call was waiting is dropped, and this
\* one is made after the wait.
DebouncedCall(arg) == [armed |-> TRUE, arg |-> arg, remaining |-> DebounceWait]

\* updateDisplaySize() on a resize of the window
Resize(size) ==
  /\ displaySize' = size
  /\ lastEvent' = "resize"
  /\ UNCHANGED <<isDragging, crosshairPosition, timer, lastPointer, released,
                 midpointCalls, studioVars, coreVars, uiVars, stageVars>>

\* handleMouseDown on one of the crosshair's elements, which are rendered
\* with an image
HandleMouseDown(screenX, screenY) ==
  /\ studioImage.present
  /\ isDragging' = TRUE
  /\ crosshairPosition' = ScreenToNormalized(screenX, screenY)
  /\ lastPointer' = ScreenToNormalized(screenX, screenY)
  /\ lastEvent' = "down"
  /\ UNCHANGED <<displaySize, timer, released, midpointCalls, studioVars,
                 coreVars, uiVars, stageVars>>

\* handleMouseMove, a listener of window while isDragging
HandleMouseMove(screenX, screenY) ==
  /\ isDragging
  /\ studioImage.present
  /\ crosshairPosition' = ScreenToNormalized(screenX, screenY)
  /\ lastPointer' = ScreenToNormalized(screenX, screenY)
  /\ lastEvent' = "move"
  /\ UNCHANGED <<displaySize, isDragging, timer, released, midpointCalls,
                 studioVars, coreVars, uiVars, stageVars>>

\* A slip: the release reports the midpoint of the props
HandleMouseUp_ReportsProp ==
  /\ isDragging
  /\ timer' = DebouncedCall(studioMidpoint)
  /\ isDragging' = FALSE
  /\ crosshairPosition' = SyncedCrosshair(FALSE, crosshairPosition,
                                          studioMidpoint)
  /\ released' = [any |-> TRUE, position |-> lastPointer]
  /\ midpointCalls' = NoMidpointCall
  /\ lastEvent' = "up"
  /\ UNCHANGED <<displaySize, lastPointer, studioVars, coreVars, uiVars,
                 stageVars>>

\* handleMouseUp, a listener of window while isDragging:
\* debouncedUpdateMidpointRef.current(crosshairPosition);
\* setIsDragging(false); then the sync effect
HandleMouseUp ==
  /\ isDragging
  /\ timer' = DebouncedCall(crosshairPosition)
  /\ isDragging' = FALSE
  /\ crosshairPosition' = SyncedCrosshair(FALSE, crosshairPosition,
                                          studioMidpoint)
  /\ released' = [any |-> TRUE, position |-> lastPointer]
  /\ midpointCalls' = NoMidpointCall
  /\ lastEvent' = "up"
  /\ UNCHANGED <<displaySize, lastPointer, studioVars, coreVars, uiVars,
                 stageVars>>

\* Time passes while a debounced call waits
Tick ==
  /\ timer.armed
  /\ timer.remaining > 0
  /\ timer' = [timer EXCEPT !.remaining =
                 IF timer.remaining > TickMs THEN timer.remaining - TickMs
                 ELSE 0]
  /\ lastEvent' = "tick"
  /\ UNCHANGED <<displaySize, isDragging, crosshairPosition, lastPointer,
                 released, midpointCalls, studioVars, coreVars, uiVars,
                 stageVars>>

\* The wait is over: (newMidpoint) => { onMidpointChange(newMidpoint) }
DebounceFires ==
  /\ timer.armed
  /\ timer.remaining = 0
  /\ OnMidpointChange(timer.arg)
  /\ timer' = NoTimer
  /\ midpointCalls' = [count |-> midpointCalls.count + 1, last |-> timer.arg]
  /\ lastEvent' = "timer"
  /\ UNCHANGED <<displaySize, isDragging, lastPointer, released, studioImage,
                 studioIndex, inFlight, presented, coreVars, uiVars,
                 stageVars>>

DragNext ==
  \/ \E img \in StudioImages, size \in DisplaySizes : ImageLoaded(img, size)
  \/ \E size \in DisplaySizes : Resize(size)
  \/ \E screenX \in ScreenXs, screenY \in ScreenYs :
       HandleMouseDown(screenX, screenY)
  \/ \E screenX \in ScreenXs, screenY \in ScreenYs :
       HandleMouseMove(screenX, screenY)
  \/ HandleMouseUp
  \/ Tick
  \/ DebounceFires

DragSpec == Init /\ [][DragNext]_vars

\* ------------------------------------------------------- App and ImagePrep
\* The files a user uploads
Files == {"a.png", "b.png"}

\* The values tried for the zoom slider and for the pan sliders (0 to 100)
ZoomValues == {50, 100}
PanValues == {50}

\* The values tried for the trim sliders (0 to 50)
TrimValues == {0, 50}

\* mapZoomToScale(v) = 0.8 + (v / 100) * (1.2 - 0.8), in thousandths
MapZoomToScale(v) == 800 + 4 * v

\* mapPanToTranslate(v) = -15 + (v / 100) * 30, in tenths of a percent
MapPanToTranslate(v) == 3 * v - 150

\* The values handleConfirm reads that are not among the dependencies of
\* its useCallback, as a render sees them
ConfirmClosure(axis, preview, inset) ==
  [mirrorAxis |-> axis, selectedPreview |-> preview, cropInset |-> inset]

\* handleConfirm = useCallback(..., [uploadedImage, scale, translateX,
\* translateY, onConfirm]) after a render: the function of this render
\* when a dependency has changed, the one kept from before when none has.
\* onConfirm is the same function as long as ImagePrep is mounted.
MemoizedConfirm(image, z, px, py, axis, preview, inset) ==
  IF \/ image # uploadedImage
     \/ MapZoomToScale(z) # MapZoomToScale(zoom)
     \/ MapPanToTranslate(px) # MapPanToTranslate(panX)
     \/ MapPanToTranslate(py) # MapPanToTranslate(panY)
  THEN ConfirmClosure(axis, preview, inset)
  ELSE confirmClosure

\* handleImageUpload(imageFile), then the render
HandleImageUpload(f) ==
  /\ uploadedImage' = [present |-> TRUE, file |-> f]
  /\ zoom' = 50
  /\ panX' = 50
  /\ panY' = 50
  /\ cropInset' = NoCropInset
  /\ confirmClosure' =
       MemoizedConfirm([present |-> TRUE, file |-> f], 50, 50, 50,
                       mirrorAxis, selectedPreview, NoCropInset)

\* An image arrives from the ImageUploader, which ImagePrep shows while it
\* has no image
Upload(f) ==
  /\ workflowStep = 1
  /\ ~uploadedImage.present
  /\ HandleImageUpload(f)
  /\ UNCHANGED <<cropMode, mirrorAxis, selectedPreview, isDraggingLeft,
                 isDraggingRight, atConfirm, workflowVars, uploaderVars,
                 studioVars, dragVars, coreVars, uiVars>>

\* onClick={() => setMirrorAxis(axis)}
SetMirrorAxis(axis) ==
  /\ workflowStep = 1
  /\ uploadedImage.present
  /\ mirrorAxis' = axis
  /\ UNCHANGED <<uploadedImage, zoom, panX, panY, cropMode, selectedPreview,
                 cropInset, isDraggingLeft, isDraggingRight, confirmClosure,
                 atConfirm, workflowVars, uploaderVars, studioVars, dragVars,
                 coreVars, uiVars>>

\* onClick={() => setSelectedPreview(preview)}, preview 0 or 1
SetSelectedPreview(preview) ==
  /\ workflowStep = 1
  /\ uploadedImage.present
  /\ selectedPreview' = JsNumber(2 * preview)
  /\ UNCHANGED <<uploadedImage, zoom, panX, panY, cropMode, mirrorAxis,
                 cropInset, isDraggingLeft, isDraggingRight, confirmClosure,
                 atConfirm, workflowVars, uploaderVars, studioVars, dragVars,
                 coreVars, uiVars>>

\* onChange of the zoom and pan sliders: setZoom, setPanX, setPanY
SetTransform(z, px, py) ==
  /\ workflowStep = 1
  /\ uploadedImage.present
  /\ zoom' = z
  /\ panX' = px
  /\ panY' = py
  /\ confirmClosure' =
       MemoizedConfirm(uploadedImage, z, px, py, mirrorAxis, selectedPreview,
                       cropInset)
  /\ UNCHANGED <<uploadedImage, cropMode, mirrorAxis, selectedPreview,
                 cropInset, isDraggingLeft, isDraggingRight, atConfirm,
                 workflowVars, uploaderVars, studioVars, dragVars, coreVars,
                 uiVars>>

\* Math.max(0, Math.min(100, percent))
ClampPercent(percent) ==
  LET atMost == IF percent < 100 THEN percent ELSE 100
  IN IF atMost > 0 THEN atMost ELSE 0

\* handleCropChange(side, percent) on the inset prev
HandleCropChange(inset, side, percent) ==
  IF side = "left"
  THEN [inset EXCEPT !.left = ClampPercent(percent)]
  ELSE [inset EXCEPT !.right = ClampPercent(percent)]

\* onChange of a trim slider, shown in crop mode
TrimSlider(side, percent) ==
  /\ workflowStep = 1
  /\ uploadedImage.present
  /\ cropMode
  /\ cropInset' = HandleCropChange(cropInset, side, percent)
  /\ UNCHANGED <<uploadedImage, zoom, panX, panY, cropMode, mirrorAxis,
                 selectedPreview, isDraggingLeft, isDraggingRight,
                 confirmClosure, atConfirm, workflowVars, uploaderVars,
                 studioVars, dragVars, coreVars, uiVars>>

\* onClick={() => setCropMode(!cropMode)}
ToggleCropMode ==
  /\ workflowStep = 1
  /\ uploadedImage.present
  /\ cropMode' = ~cropMode
  /\ UNCHANGED <<uploadedImage, zoom, panX, panY, mirrorAxis, selectedPreview,
                 cropInset, isDraggingLeft, isDraggingRight, confirmClosure,
                 atConfirm, workflowVars, uploaderVars, studioVars, dragVars,
                 coreVars, uiVars>>

\* handleReset
HandleReset ==
  /\ workflowStep = 1
  /\ uploadedImage.present
  /\ zoom' = 50
  /\ panX' = 50
  /\ panY' = 50
  /\ cropInset' = NoCropInset
  /\ confirmClosure' =
       MemoizedConfirm(uploadedImage, 50, 50, 50, mirrorAxis, selectedPreview,
                       NoCropInset)
  /\ UNCHANGED <<uploadedImage, cropMode, mirrorAxis, selectedPreview,
                 isDraggingLeft, isDraggingRight, atConfirm, workflowVars,
                 uploaderVars, studioVars, dragVars, coreVars, uiVars>>

\* handleClear
HandleClear ==
  /\ workflowStep = 1
  /\ uploadedImage.present
  /\ uploadedImage' = NoUpload
  /\ zoom' = 50
  /\ panX' = 50
  /\ panY' = 50
  /\ confirmClosure' =
       MemoizedConfirm(NoUpload, 50, 50, 50, mirrorAxis, selectedPreview,
                       cropInset)
  /\ UNCHANGED <<cropMode, mirrorAxis, selectedPreview, cropInset,
                 isDraggingLeft, isDraggingRight, atConfirm, workflowVars,
                 uploaderVars, studioVars, dragVars, coreVars, uiVars>>

\* ImagePrep as it is mounted
PrepMounted ==
  /\ uploadedImage' = NoUpload
  /\ zoom' = 50
  /\ panX' = 50
  /\ panY' = 50
  /\ cropMode' = FALSE
  /\ mirrorAxis' = "vertical"
  /\ selectedPreview' = JsNull
  /\ cropInset' = NoCropInset
  /\ isDraggingLeft' = FALSE
  /\ isDraggingRight' = FALSE
  /\ confirmClosure' = ConfirmClosure("vertical", JsNull, NoCropInset)

\* A click on Next, shown with an image: handleConfirm as memoized calls
\* onConfirm, which is handleImageConfirm of App: setSourceImage,
\* setWorkflowStep(2). App then renders SymmetryStudio in the place of
\* ImagePrep, whose next mount starts from its initial state.
HandleConfirm ==
  /\ workflowStep = 1
  /\ uploadedImage.present
  /\ sourceImage' =
       [present |-> TRUE,
        file |-> uploadedImage.file,
        transform |-> [scale |-> MapZoomToScale(zoom),
                       translateX |-> MapPanToTranslate(panX),
                       translateY |-> MapPanToTranslate(panY)],
        mirrorAxis |-> confirmClosure.mirrorAxis,
        selectedPreview |-> confirmClosure.selectedPreview,
        cropInset |-> confirmClosure.cropInset]
  /\ workflowStep' = 2
  /\ atConfirm' = ConfirmClosure(mirrorAxis, selectedPreview, cropInset)
  /\ PrepMounted
  /\ UNCHANGED <<uploaderVars, studioVars, dragVars, coreVars, uiVars>>

\* A slip: the image dropped on the way back
HandleBack_ClearsSourceImage ==
  /\ workflowStep = 2
  /\ workflowStep' = 1
  /\ sourceImage' = NoSourceImage
  /\ atConfirm' = ConfirmClosure("vertical", JsNull, NoCropInset)
  /\ UNCHANGED <<uploadedImage, zoom, panX, panY, cropMode, mirrorAxis,
                 selectedPreview, cropInset, isDraggingLeft, isDraggingRight,
                 confirmClosure, uploaderVars, studioVars, dragVars, coreVars,
                 uiVars>>

\* handleBack, the onBack of SymmetryStudio: setWorkflowStep(1); the click
\* on Next is over
HandleBack ==
  /\ workflowStep = 2
  /\ workflowStep' = 1
  /\ atConfirm' = ConfirmClosure("vertical", JsNull, NoCropInset)
  /\ UNCHANGED <<sourceImage, uploadedImage, zoom, panX, panY, cropMode,
                 mirrorAxis, selectedPreview, cropInset, isDraggingLeft,
                 isDraggingRight, confirmClosure, uploaderVars, studioVars,
                 dragVars, coreVars, uiVars>>

PrepNext ==
  \/ \E f \in Files : Upload(f)
  \/ \E axis \in {"vertical", "horizontal"} : SetMirrorAxis(axis)
  \/ \E preview \in 0 .. 1 : SetSelectedPreview(preview)
  \/ \E z \in ZoomValues, px \in PanValues, py \in PanValues :
       SetTransform(z, px, py)
  \/ ToggleCropMode
  \/ \E percent \in TrimValues : TrimSlider("left", percent)
  \/ HandleReset
  \/ HandleClear
  \/ HandleConfirm
  \/ HandleBack

PrepSpec == Init /\ [][PrepNext]_vars

\* ------------------------------------------ the crop handles of ImagePrep
\* Where the pointer is during a drag, in hundredths of the viewport's
\* width from its left edge: left of it, inside it, right of it
DragPointers == {-10, 20, 80, 110}

\* screenXToPercentage(screenX): the viewport is there while an image is
\* shown
ScreenXToPercentage(relativeX) == ClampPercent(relativeX)

\* handleLeftDragStart, on the left handle, shown in crop mode
HandleLeftDragStart ==
  /\ workflowStep = 1
  /\ uploadedImage.present
  /\ cropMode
  /\ isDraggingLeft' = TRUE
  /\ UNCHANGED <<uploadedImage, zoom, panX, panY, cropMode, mirrorAxis,
                 selectedPreview, cropInset, isDraggingRight, confirmClosure,
                 atConfirm, workflowVars, uploaderVars, studioVars, dragVars,
                 coreVars, uiVars>>

\* handleRightDragStart, on the right handle, shown in crop mode
HandleRightDragStart ==
  /\ workflowStep = 1
  /\ uploadedImage.present
  /\ cropMode
  /\ isDraggingRight' = TRUE
  /\ UNCHANGED <<uploadedImage, zoom, panX, panY, cropMode, mirrorAxis,
                 selectedPreview, cropInset, isDraggingLeft, confirmClosure,
                 atConfirm, workflowVars, uploaderVars, studioVars, dragVars,
                 coreVars, uiVars>>

\* handleDragMove, a listener of window while a handle is dragged
HandleDragMove(relativeX) ==
  /\ workflowStep = 1
  /\ isDraggingLeft \/ isDraggingRight
  /\ LET percentage == ScreenXToPercentage(relativeX)
         maxLeft == 100 - cropInset.right
         maxRight == 100 - cropInset.left
     IN cropInset' =
          IF isDraggingLeft
          THEN HandleCropChange(cropInset, "left",
                                IF percentage < maxLeft THEN percentage
                                ELSE maxLeft)
          ELSE HandleCropChange(cropInset, "right",
                                IF 100 - percentage < maxRight
                                THEN 100 - percentage
                                ELSE maxRight)
  /\ UNCHANGED <<uploadedImage, zoom, panX, panY, cropMode, mirrorAxis,
                 selectedPreview, isDraggingLeft, isDraggingRight,
                 confirmClosure, atConfirm, workflowVars, uploaderVars,
                 studioVars, dragVars, coreVars, uiVars>>

\* handleDragEnd, a listener of window while a handle is dragged
HandleDragEnd ==
  /\ workflowStep = 1
  /\ isDraggingLeft \/ isDraggingRight
  /\ isDraggingLeft' = FALSE
  /\ isDraggingRight' = FALSE
  /\ UNCHANGED <<uploadedImage, zoom, panX, panY, cropMode, mirrorAxis,
                 selectedPreview, cropInset, confirmClosure, atConfirm,
                 workflowVars, uploaderVars, studioVars, dragVars, coreVars,
                 uiVars>>

\* Reset Crop: onClick={() => setCropInset({ left: 0, right: 0, top: 0,
\* bottom: 0 })}, shown in crop mode
ResetCrop ==
  /\ workflowStep = 1
  /\ uploadedImage.present
  /\ cropMode
  /\ cropInset' = NoCropInset
  /\ UNCHANGED <<uploadedImage, zoom, panX, panY, cropMode, mirrorAxis,
                 selectedPreview, isDraggingLeft, isDraggingRight,
                 confirmClosure, atConfirm, workflowVars, uploaderVars,
                 studioVars, dragVars, coreVars, uiVars>>

CropNext ==
  \/ \E f \in Files : Upload(f)
  \/ ToggleCropMode
  \/ \E side \in {"left", "right"}, percent \in TrimValues :
       TrimSlider(side, percent)
  \/ HandleLeftDragStart
  \/ HandleRightDragStart
  \/ \E relativeX \in DragPointers : HandleDragMove(relativeX)
  \/ HandleDragEnd
  \/ ResetCrop
  \/ HandleReset
  \/ HandleClear

CropSpec == Init /\ [][CropNext]_vars

\* ------------------------------------------------------ the ImageUploader
\* The files that may be read or decoded at one time
MaxLoads == 3

\* const validTypes = ['image/jpeg', 'image/jpg', 'image/png']
ValidTypes == {"image/jpeg", "image/jpg", "image/png"}

\* The types of the files tried
FileTypes == {"image/png", "text/plain"}

\* handleFileChange with a file of the input, shown while ImagePrep has no
\* image: the alert and nothing else for a file of another type; else
\* reader.readAsDataURL(file)
HandleFileChange(f, type) ==
  /\ workflowStep = 1
  /\ ~uploadedImage.present
  /\ Len(loads) < MaxLoads
  /\ IF type \notin ValidTypes
     THEN UNCHANGED <<loads, lastSelected>>
     ELSE /\ loads' = Append(loads, [file |-> f, stage |-> "reading"])
          /\ lastSelected' = f
  /\ UNCHANGED <<delivered, prepVars, workflowVars, studioVars, dragVars,
                 coreVars, uiVars>>

\* reader.onload of the k-th load: img.src = e.target.result
ReaderOnload(k) ==
  /\ k \in 1 .. Len(loads)
  /\ loads[k].stage = "reading"
  /\ loads' = [loads EXCEPT ![k].stage = "decoding"]
  /\ UNCHANGED <<lastSelected, delivered, prepVars, workflowVars, studioVars,
                 dragVars, coreVars, uiVars>>

\* img.onload of the k-th load: onImageUpload({ file, imageElement, width,
\* height }), which is handleImageUpload of ImagePrep
ImgOnload(k) ==
  /\ k \in 1 .. Len(loads)
  /\ loads[k].stage = "decoding"
  /\ workflowStep = 1
  /\ HandleImageUpload(loads[k].file)
  /\ delivered' = loads[k].file
  /\ loads' = SubSeq(loads, 1, k - 1) \o SubSeq(loads, k + 1, Len(loads))
  /\ UNCHANGED <<lastSelected, cropMode, mirrorAxis, selectedPreview,
                 isDraggingLeft, isDraggingRight, atConfirm, workflowVars,
                 studioVars, dragVars, coreVars, uiVars>>

UploaderNext ==
  \/ \E f \in Files, type \in FileTypes : HandleFileChange(f, type)
  \/ \E k \in 1 .. MaxLoads : ReaderOnload(k)
  \/ \E k \in 1 .. MaxLoads : ImgOnload(k)
  \/ HandleClear

UploaderSpec == Init /\ [][UploaderNext]_vars

\* ------------------------------------------------------------------ claims
\* The pixel size used to extract rectangle k (tempCanvas.width, .height)
QuantWidth(k) == ToCanvasSize(sourceRectangles[k].width)
QuantHeight(k) == ToCanvasSize(sourceRectangles[k].height)

\* The midpoint of the running call lies strictly inside the image
MidpointInside ==
  /\ midpoint.present
  /\ midpoint.x \in 1 .. (Den - 1)
  /\ midpoint.y \in 1 .. (Den - 1)

\* C1 (as claimed): for a buffer of at least 1x1 and a midpoint strictly
\* inside it, the four rectangles at the pixel sizes used for extraction tile the buffer: the
\* areas add up to W*H, TopLeft width + TopRight width = W and TopLeft
\* height + BottomLeft height = H.
C1_QuantizedRectanglesTile ==
  ( /\ Len(sourceRectangles) = 4
    /\ imgWidth >= 1
    /\ imgHeight >= 1
    /\ MidpointInside ) =>
    /\ QuantWidth(1) * QuantHeight(1) + QuantWidth(2) * QuantHeight(2)
         + QuantWidth(3) * QuantHeight(3) + QuantWidth(4) * QuantHeight(4)
       = imgWidth * imgHeight
    /\ QuantWidth(1) + QuantWidth(2) = imgWidth
    /\ QuantHeight(1) + QuantHeight(3) = imgHeight

\* Pattern k is its own mirror image about the vertical centre line
SymmetricX(k) ==
  \A p \in Coords(patterns[k].width, patterns[k].height) :
    patterns[k].px[p] = patterns[k].px[<<patterns[k].width - 1 - p[1], p[2]>>]

\* Pattern k is its own mirror image about the horizontal centre line
SymmetricY(k) ==
  \A p \in Coords(patterns[k].width, patterns[k].height) :
    patterns[k].px[p] = patterns[k].px[<<p[1], patterns[k].height - 1 - p[2]>>]

C3_PatternHasCanonicalSize ==
  \A k \in 1 .. Len(patterns) :
    /\ patterns[k].width = preprocessedCanvas.width
    /\ patterns[k].height = preprocessedCanvas.height
    /\ DOMAIN patterns[k].px
         = Coords(preprocessedCanvas.width, preprocessedCanvas.height)
    /\ patterns[k].dataLength
         = preprocessedCanvas.width * preprocessedCanvas.height * 4

\* C3 witness: all four patterns returned, from seed tiles smaller than the
\* canonical buffer.
C3_Witness ==
  /\ pc = "returned"
  /\ Len(patterns) = 4
  /\ \A k \in 1 .. 4 :
       tiles[k].width < imgWidth /\ tiles[k].height < imgHeight

Longer(a, b) == IF a >= b THEN a ELSE b

\* r is v * maxDimension / longer rounded to the nearest integer (half up)
IsRounded(r, v, longer) ==
  /\ 2 * r * longer - longer <= 2 * v * maxDimension
  /\ 2 * v * maxDimension < 2 * r * longer + longer

\* C4: in preview quality with a side above 1024 each working dimension is
\* the original one times 1024 / max(width, height), rounded on its own
\* (4000 x 2000 gives 1024 x 512); in every other case the working
\* dimensions are the original ones.
C4_WorkingDimensions ==
  LET longer == Longer(dims.originalWidth, dims.originalHeight)
  IN /\ IF dims.quality = "preview" /\ longer > 1024
        THEN /\ IsRounded(dims.imgWidth, dims.originalWidth, longer)
             /\ IsRounded(dims.imgHeight, dims.originalHeight, longer)
        ELSE /\ dims.imgWidth = dims.originalWidth
             /\ dims.imgHeight = dims.originalHeight
     /\ (dims.quality = "preview" /\ dims.originalWidth = 4000
           /\ dims.originalHeight = 2000)
          => (dims.imgWidth = 1024 /\ dims.imgHeight = 512)

\* C4 witness: the 4000 x 2000 preview, and a tall image scaled by height.
C4_Witness ==
  /\ dims.quality = "preview"
  /\ dims.originalWidth = 2000
  /\ dims.originalHeight = 4000
  /\ dims.imgWidth = 512
  /\ dims.imgHeight = 1024

Abs(n) == IF n < 0 THEN -n ELSE n

\* C5: for an image with both sides >= 1 the preview buffer's longer side
\* is at most 1024 and |imgWidth * originalHeight - imgHeight *
\* originalWidth| <= max(originalWidth, originalHeight).
C5_PreviewCapAndAspect ==
  (dims.quality = "preview" /\ dims.originalWidth >= 1
     /\ dims.originalHeight >= 1) =>
    /\ Longer(dims.imgWidth, dims.imgHeight) <= 1024
    /\ Abs(dims.imgWidth * dims.originalHeight
             - dims.imgHeight * dims.originalWidth)
         <= Longer(dims.originalWidth, dims.originalHeight)

\* C5 witness: a preview that was scaled down and whose aspect ratio moved
\* by rounding.
C5_Witness ==
  /\ dims.quality = "preview"
  /\ dims.originalHeight > 1024
  /\ dims.originalWidth >= 1
  /\ dims.imgHeight = 1024
  /\ dims.imgWidth * dims.originalHeight # dims.imgHeight * dims.originalWidth

\* C6 (as claimed): the seed tile of source index i is the extracted
\* rectangle unchanged (0), flipped horizontally (1), vertically (2) or on
\* both axes (3), pixel for pixel.
C6_SeedIsFlippedExtract ==
  \A k \in 1 .. Len(tiles) :
    LET w == tempCanvases[k].width
        h == tempCanvases[k].height
    IN /\ tiles[k].width = w
       /\ tiles[k].height = h
       /\ \A p \in Coords(w, h) :
            tiles[k].px[p] =
              tempCanvases[k].px[
                << IF k - 1 \in {1, 3} THEN w - 1 - p[1] ELSE p[1],
                   IF k - 1 \in {2, 3} THEN h - 1 - p[2] ELSE p[2] >>]

\* Pixel (0,0) of the tile is an opaque colour that no other pixel has
HasMarker(tile) ==
  /\ tile.width >= 1
  /\ tile.height >= 1
  /\ CLEAR \notin tile.px[<<0, 0>>]
  /\ \A p \in Coords(tile.width, tile.height) :
       p # <<0, 0>> => tile.px[p] # tile.px[<<0, 0>>]

\* The four corners of pattern k show the tile's pixel (0,0)
MarkerAtCorners(k) ==
  LET m == tiles[k].px[<<0, 0>>]
      w == patterns[k].width
      h == patterns[k].height
  IN /\ patterns[k].px[<<0, 0>>] = m
     /\ patterns[k].px[<<w - 1, 0>>] = m
     /\ patterns[k].px[<<0, h - 1>>] = m
     /\ patterns[k].px[<<w - 1, h - 1>>] = m

\* C7 (as claimed): for every seed tile of at least 1x1 that fits in the
\* output and has a distinct marker at its (0,0), the output shows the
\* marker at its four corners.
C7_MarkerAtCornersAlways ==
  \A k \in 1 .. Len(patterns) : HasMarker(tiles[k]) => MarkerAtCorners(k)

\* C7 (amended): the same, for a seed tile narrower than the output (or an
\* output one pixel wide) and shorter than the output (or an output one
\* pixel tall).
C7_MarkerAtCornersWhenSmaller ==
  \A k \in 1 .. Len(patterns) :
    ( /\ HasMarker(tiles[k])
      /\ (tiles[k].width < imgWidth \/ imgWidth = 1)
      /\ (tiles[k].height < imgHeight \/ imgHeight = 1) )
      => MarkerAtCorners(k)

\* C7 witness: a marked seed tile of several pixels whose copies overlap,
\* in an output larger than the tile.
C7_Witness ==
  \E k \in 1 .. Len(patterns) :
    /\ HasMarker(tiles[k])
    /\ tiles[k].width < imgWidth
    /\ tiles[k].height < imgHeight
    /\ 2 * tiles[k].width > imgWidth
    /\ tiles[k].height >= 2

\* C8 (as claimed): with an image of at least 1x1 and a midpoint that has x
\* or y equal to 0 or 1, generateSymmetries raises no error.
C8_DegenerateMidpointAccepted ==
  ( /\ imageElement.present
    /\ imageElement.width >= 1
    /\ imageElement.height >= 1
    /\ midpoint.present
    /\ (midpoint.x \in {0, Den} \/ midpoint.y \in {0, Den}) )
    => pc # "threw"

\* C9 (as claimed): with an absent image, or one of width or height 0,
\* generateSymmetries raises no error and returns an empty result.
C9_EmptyImageYieldsEmptyResult ==
  ( /\ pc # "idle"
    /\ (~imageElement.present \/ imageElement.width = 0
          \/ imageElement.height = 0) )
    => (pc # "threw" /\ patterns = << >>)

\* quadrantIndex is one of the numbers 0, 1, 2, 3
IsQuadrantIndex(v) == v.kind = "number" /\ v.twice \in {0, 2, 4, 6}

\* C10 (as claimed): a call of exportHighResImage, with an image of at least
\* 1x1 and a midpoint, whose quadrantIndex is not one of 0, 1, 2, 3 fails with 'Invalid parameters for export' before any
\* pattern is generated; with 0..3 it does not raise that error.
C10_InvalidIndexRejected ==
  ( /\ exportPc # "idle"
    /\ exportArgs.imageElement.present
    /\ exportArgs.imageElement.width >= 1
    /\ exportArgs.imageElement.height >= 1
    /\ exportArgs.midpoint.present ) =>
    IF IsQuadrantIndex(exportArgs.quadrantIndex)
    THEN exportError # "Invalid parameters for export"
    ELSE /\ exportPc = "rejected"
         /\ exportError = "Invalid parameters for export"
         /\ ~exportGenerated

\* The element of the 'high-res' result of generateSymmetries, on the inputs
\* of the running export, that quadrantIndex selects
HighResPatternOfExport ==
  GenerateSymmetriesResult(exportArgs.imageElement, exportArgs.midpoint,
                           "high-res").patterns[
    exportArgs.quadrantIndex.twice \div 2 + 1]

C12_ExportAtOriginalSize ==
  exportDims.originalWidth >= 1 =>
    /\ exportDims.canvasWidth = exportDims.originalWidth
    /\ exportDims.canvasHeight = exportDims.originalHeight
    /\ exportDims.patternWidth = exportDims.originalWidth
    /\ exportDims.patternHeight = exportDims.originalHeight

\* C12 happens: an image with both sides above 1024, of different length,
\* has been exported.
C12_Witness ==
  /\ exportDims.originalWidth > maxDimension
  /\ exportDims.originalHeight > exportDims.originalWidth
  /\ exportDims.canvasWidth = exportDims.originalWidth
  /\ exportDims.patternHeight = exportDims.originalHeight

\* C13: once toBlob has called back with null, the promise of the export is
\* rejected with 'Failed to create blob', the handler that awaits it has
\* passed nothing to downloadBlob, and it has started that one export only
\* (no retry).
C13_NullBlobRejectsWithoutDownload ==
  blob = "null" =>
    /\ exportPc = "rejected"
    /\ exportError = "Failed to create blob"
    /\ downloads = << >>
    /\ exportCalls = 1

\* C13 happens: Sidebar.handleExport has finished an export whose toBlob
\* called back with null.
C13_Witness ==
  /\ blob = "null"
  /\ component = "Sidebar"
  /\ handlerPc = "finished"
  /\ alerts = <<"Failed to export image. Please try again.">>

\* The labels the filenames are to carry, by quadrant index
FilenameLabels ==
  << <<"t", "o", "p", "-", "l", "e", "f", "t">>,
     <<"t", "o", "p", "-", "r", "i", "g", "h", "t">>,
     <<"b", "o", "t", "t", "o", "m", "-", "l", "e", "f", "t">>,
     <<"b", "o", "t", "t", "o", "m", "-", "r", "i", "g", "h", "t">> >>

\* The number a sequence of decimal digits denotes
RECURSIVE ParseDecimal(_)
ParseDecimal(digits) ==
  IF digits = << >> THEN 0
  ELSE LET last == digits[Len(digits)]
           value == (CHOOSE i \in 1 .. 10 : DecimalDigits[i] = last) - 1
       IN ParseDecimal(SubSeq(digits, 1, Len(digits) - 1)) * 10 + value

\* name is 'refract-' + label + '-' + the decimal digits of t + '.png'
IsExportFilename(name, label, t) ==
  LET prefix == <<"r", "e", "f", "r", "a", "c", "t", "-">> \o label \o <<"-">>
      digits == SubSeq(name, Len(prefix) + 1, Len(name) - 4)
  IN /\ Len(name) >= Len(prefix) + 5
     /\ SubSeq(name, 1, Len(prefix)) = prefix
     /\ SubSeq(name, Len(name) - 3, Len(name)) = <<".", "p", "n", "g">>
     /\ \A i \in 1 .. Len(digits) :
          \E d \in 1 .. 10 : DecimalDigits[d] = digits[i]
     /\ (Len(digits) > 1 => digits[1] # "0")
     /\ ParseDecimal(digits) = t

\* C14: every filename passed to downloadBlob, by Sidebar.handleExport and
\* by FocusView.generateHighResExport, is for an index q of 0..3 and reads
\* 'refract-' + label(q) + '-' + the value of Date.now() + '.png', the labels
\* being top-left, top-right, bottom-left, bottom-right.
C14_ExportFilename ==
  \A k \in 1 .. Len(downloads) :
    /\ IsQuadrantIndex(props.index)
    /\ IsExportFilename(downloads[k],
                        FilenameLabels[props.index.twice \div 2 + 1], now)

\* C14 happens: FocusView has downloaded the bottom-right pattern at a time
\* of several digits.
C14_Witness ==
  /\ component = "FocusView"
  /\ props.index = JsNumber(6)
  /\ now > 10
  /\ Len(downloads) = 1

\* C17: a run of Sidebar.handleExport with no preview selected (null) or
\* with an index that is not one of 0..3 never calls downloadBlob, and when
\* it has finished it has shown one message and isExporting is false.
C17_NoExportWithoutValidIndex ==
  (component = "Sidebar" /\ ~IsQuadrantIndex(props.index)) =>
    /\ downloads = << >>
    /\ handlerPc = "finished" => (Len(alerts) = 1 /\ ~isExporting)

\* C17 happens: handleExport has finished with no preview selected.
C17_Witness ==
  /\ component = "Sidebar"
  /\ handlerPc = "finished"
  /\ props.index = JsNull
  /\ props.originalImage.present
  /\ alerts = <<"Please select a preview to export">>

\* handleExport has finished with the index 4, after setting isExporting.
C17_WitnessInvalidIndex ==
  /\ component = "Sidebar"
  /\ handlerPc = "finished"
  /\ props.index = JsNumber(8)
  /\ exportCalls = 1
  /\ alerts = <<"Failed to export image. Please try again.">>

LabelIsTop(i) == SubSeq(quadrantLabels[i], 1, 3) = <<"T", "o", "p">>
LabelIsLeft(i) ==
  SubSeq(quadrantLabels[i], Len(quadrantLabels[i]) - 3,
         Len(quadrantLabels[i])) = <<"L", "e", "f", "t">>

\* The name sourceRectangles gives the quadrant of a row and a column
RectangleName(top, left) ==
  IF top THEN (IF left THEN "topLeft" ELSE "topRight")
  ELSE (IF left THEN "bottomLeft" ELSE "bottomRight")

\* Index i denotes one quadrant in the rectangles of the running call, in
\* the flip selection, in the displayed labels and in the filename labels
QuadrantMappingAgrees ==
  \A i \in 1 .. Len(sourceRectangles) :
    /\ sourceRectangles[i].name = RectangleName(LabelIsTop(i), LabelIsLeft(i))
    /\ FlipsHorizontally(i - 1) <=> ~LabelIsLeft(i)
    /\ FlipsVertically(i - 1) <=> ~LabelIsTop(i)
    /\ ToLowerCase(quadrantLabels[i]) = FilenameLabels[i]
    /\ (LabelIsLeft(i) <=> sourceRectangles[i].x = 0)
          \/ sourceRectangles[2].x = 0
    /\ (LabelIsTop(i) <=> sourceRectangles[i].y = 0)
          \/ sourceRectangles[3].y = 0

\* C16 (as claimed): a call of generateSymmetries with an image of at least
\* 1x1 and a midpoint returns exactly four buffers, and index i denotes the
\* same quadrant (TopLeft, TopRight, BottomLeft, BottomRight) in the
\* rectangles, the flip selection, the preview labels and the filename
\* labels.
C16_FourBuffersInFixedOrder ==
  ( /\ pc \in {"returned", "threw"}
    /\ imageElement.present
    /\ imageElement.width >= 1
    /\ imageElement.height >= 1
    /\ midpoint.present ) =>
    /\ pc = "returned"
    /\ Len(patterns) = 4
    /\ QuadrantMappingAgrees

\* The copies (1 identity, 2 horizontal mirror, 3 vertical mirror, 4 both)
\* of a tile of tw x th that cover pixel p of a pattern of w x h
CopiesCovering(p, tw, th, w, h) ==
  {c \in 1 .. 4 :
     /\ IF c \in {2, 4} THEN p[1] >= w - tw ELSE p[1] < tw
     /\ IF c \in {3, 4} THEN p[2] >= h - th ELSE p[2] < th}

\* The tile pixel that copy c puts on pixel p
TilePixelOfCopy(c, p, tile, w, h) ==
  tile.px[<<IF c \in {2, 4} THEN w - 1 - p[1] ELSE p[1],
            IF c \in {3, 4} THEN h - 1 - p[2] ELSE p[2]>>]

LatestCopy(copies) == CHOOSE c \in copies : \A d \in copies : d <= c

\* Pixel p of finished pattern k, when several copies cover it, has the
\* value of the latest of them, and the background colour when no copy
\* covers it
TakenFromLatestCopy(k, p) ==
  LET copies == CopiesCovering(p, tiles[k].width, tiles[k].height,
                               patterns[k].width, patterns[k].height)
  IN IF copies = {}
     THEN patterns[k].px[p] = {BG}
     ELSE Cardinality(copies) >= 2 =>
            patterns[k].px[p] =
              TilePixelOfCopy(LatestCopy(copies), p, tiles[k],
                              patterns[k].width, patterns[k].height)

\* C18 (as claimed): in every pattern, every pixel that more than one of
\* the copies (identity, horizontal mirror, vertical mirror, both) cover has
\* the value of the latest of them, and every pixel that none covers has the
\* background colour.
C18_LatestCopyWins ==
  \A k \in 1 .. Len(patterns) :
    \A p \in DOMAIN patterns[k].px : TakenFromLatestCopy(k, p)

\* The same for the patterns whose tile has no transparent part
C18_LatestCopyWinsOpaqueTile ==
  \A k \in 1 .. Len(patterns) :
    (\A q \in DOMAIN tiles[k].px : CLEAR \notin tiles[k].px[q]) =>
      \A p \in DOMAIN patterns[k].px : TakenFromLatestCopy(k, p)

\* v (in 1/Den units) rounded to the nearest integer, halves upwards
RoundToPixel(v) == (2 * v + Den) \div (2 * Den)

\* C19 (as claimed): the seed tile of every finished quadrant is as wide and
\* as tall as its rectangle with the edges rounded to the nearest integer:
\* round(x + width) - round(x) by round(y + height) - round(y).
C19_SeedTileHasRoundedSize ==
  \A k \in 1 .. Len(tiles) :
    LET r == sourceRectangles[k]
    IN /\ tiles[k].width = RoundToPixel(r.x + r.width) - RoundToPixel(r.x)
       /\ tiles[k].height = RoundToPixel(r.y + r.height) - RoundToPixel(r.y)

\* The canonical buffer, the rectangles and the patterns finished so far
\* are what the inputs of the running call alone determine: the buffer as
\* it was built, and each pattern as createPatternFromSource computes it
\* from that buffer on its own, whatever was processed before it.
PatternsFromCanonicalContent ==
  (pc \in {"map", "returned", "threw"} /\ imageElement.present
     /\ midpoint.present) =>
    LET canonical == Preprocess(imageElement, imgWidth, imgHeight)
        rects == SourceRectangles(MidCoord(midpoint.x, imgWidth),
                                  MidCoord(midpoint.y, imgHeight),
                                  imgWidth, imgHeight)
    IN /\ preprocessedCanvas = canonical
       /\ sourceRectangles = rects
       /\ \A k \in 1 .. Len(patterns) :
            patterns[k] =
              CreatePatternFromSource(canonical, rects[k], imgWidth,
                                      imgHeight, k - 1).pattern

\* C20: while the map over the rectangles runs, no step changes the
\* canonical buffer, the midpoint or the image, and every pattern is the one
\* createPatternFromSource computes from the canonical content alone,
\* independently of the quadrants processed before it.
C20_CanonicalBufferOnlyRead ==
  /\ [][pc = "map" =>
          UNCHANGED <<preprocessedCanvas, midpoint, imageElement>>]_vars
  /\ []PatternsFromCanonicalContent

\* C20 happens: four patterns, not all alike, have been computed from a
\* canonical buffer of at least 2x2.
C20_Witness ==
  /\ pc = "returned"
  /\ Len(patterns) = 4
  /\ imgWidth >= 2
  /\ imgHeight >= 2
  /\ patterns[1] # patterns[4]
  /\ preprocessedCanvas = Preprocess(imageElement, imgWidth, imgHeight)

\* C21 (as claimed): whatever is downloaded was computed from the midpoint
\* and the quadrant that are selected at the time of the download; an
\* export whose parameters were changed while it was awaited is discarded.
C21_StaleExportDiscarded ==
  presented.any =>
    /\ presented.midpoint = presented.latestMidpoint
    /\ presented.index = presented.latestIndex

\* C27: at most one run of Sidebar.handleExport awaits its export at any
\* time, and isExporting is true exactly while one does.
C27_SingleExportInFlight ==
  /\ Len(inFlight) <= 1
  /\ isExporting <=> (Len(inFlight) = 1)

\* C27 happens: with an export waiting for toBlob, a preview selected and
\* an image loaded, the button is disabled.
C27_Witness ==
  /\ Len(inFlight) = 1
  /\ inFlight[1].settled = "toBlob"
  /\ studioImage.present
  /\ studioIndex.kind = "number"
  /\ studioIndex # inFlight[1].index
  /\ ExportButtonDisabled

\* A position with both coordinates in [0, 1]
InUnitSquare(p) == p.x \in 0 .. Den /\ p.y \in 0 .. Den

\* C22: a mouse-move of a drag changes the crosshair only and never calls
\* onMidpointChange; after a release, while the debounced call waits
\* onMidpointChange has not been called, and once the wait is over it has
\* been called exactly once, with the position of the last mouse-move or
\* mouse-down of the drag.
C22_MidpointReportedOnceAfterRelease ==
  /\ [][lastEvent' = "move" =>
         UNCHANGED <<studioMidpoint, midpointCalls, timer>>]_vars
  /\ [](released.any =>
          IF timer.armed
          THEN midpointCalls.count = 0 /\ timer.arg = released.position
          ELSE /\ midpointCalls.count = 1
               /\ midpointCalls.last = released.position
               /\ (lastEvent = "timer" => studioMidpoint = released.position))

\* C22 happens: a drag was moved away from where it began and from the
\* midpoint, released, and the wait is over.
C22_Witness ==
  /\ released.any
  /\ ~timer.armed
  /\ lastEvent = "timer"
  /\ midpointCalls.count = 1
  /\ studioMidpoint = Midpoint(Den, 0)

\* C23: the midpoint of SymmetryStudio and the crosshair of CanvasDisplay
\* have both coordinates in [0, 1].
C23_PositionsInUnitSquare ==
  InUnitSquare(studioMidpoint) /\ InUnitSquare(crosshairPosition)

\* C23 happens: the pointer dragged beyond the corner of the canvas, and a
\* midpoint reported from beyond its other side.
C23_Witness ==
  /\ isDragging
  /\ lastEvent = "move"
  /\ crosshairPosition = Midpoint(0, 0)
  /\ studioMidpoint = Midpoint(Den, 0)

\* C24 (as claimed): for an original image with both sides at least 1, the
\* working width and the working height of the preview tier are both at
\* least 1.
C24_PreviewSidesAtLeastOne ==
  ( /\ dims.quality = "preview"
    /\ dims.originalWidth >= 1
    /\ dims.originalHeight >= 1 ) =>
    /\ dims.imgWidth >= 1
    /\ dims.imgHeight >= 1

\* C25: workflowStep is 1 or 2; with workflowStep = 2 there is a source
\* image; step 2 is entered only from an ImagePrep that has an uploaded
\* image, by handleImageConfirm, which stores that image; the way back to
\* step 1 leaves sourceImage as it is.
C25_StudioHasSourceImage ==
  /\ [](workflowStep \in {1, 2})
  /\ [](workflowStep = 2 => sourceImage.present)
  /\ [][(workflowStep = 1 /\ workflowStep' = 2) =>
          /\ uploadedImage.present
          /\ sourceImage'.present
          /\ sourceImage'.file = uploadedImage.file]_vars
  /\ [][(workflowStep = 2 /\ workflowStep' = 1) =>
          UNCHANGED sourceImage]_vars

\* C25 happens: back at step 1 with the image confirmed before still
\* stored, and ImagePrep without an image.
C25_Witness ==
  /\ workflowStep = 1
  /\ sourceImage.present
  /\ ~uploadedImage.present

\* C29 (as claimed): the object passed to onConfirm carries the mirrorAxis,
\* the selectedPreview and the cropInset that ImagePrep had at the click.
C29_ConfirmCarriesCurrentValues ==
  workflowStep = 2 =>
    /\ sourceImage.mirrorAxis = atConfirm.mirrorAxis
    /\ sourceImage.selectedPreview = atConfirm.selectedPreview
    /\ sourceImage.cropInset = atConfirm.cropInset

\* C28 (as claimed): cropInset.left and cropInset.right are each within
\* [0, 100], and together they are at most 100.
C28_CropInsetWithinBounds ==
  /\ cropInset.left \in 0 .. 100
  /\ cropInset.right \in 0 .. 100
  /\ cropInset.left + cropInset.right <= 100

\* C30 (as claimed): once every selected file has been read and decoded,
\* the image of the last call of onImageUpload is the one of the file
\* selected last.
C30_LastSelectedFileDelivered ==
  (loads = << >> /\ delivered # "") =>
    /\ delivered = lastSelected
    /\ uploadedImage.present => uploadedImage.file = lastSelected

\* C26: isExporting is true only while Sidebar.handleExport awaits its
\* export, and isGeneratingHighRes only while generateHighResExport of
\* FocusView awaits its blob; each flag that is true is false again later,
\* whether the export is resolved or rejected.
C26_ExportFlagsCleared ==
  /\ [](isExporting => (component = "Sidebar" /\ handlerPc = "awaiting"))
  /\ [](isGeneratingHighRes =>
          (component = "FocusView" /\ handlerPc = "awaiting"))
  /\ (isExporting ~> ~isExporting)
  /\ (isGeneratingHighRes ~> ~isGeneratingHighRes)

\* C26 happens: an export of FocusView that was counted has failed after its
\* await, its flag is false again.
C26_Witness ==
  /\ component = "FocusView"
  /\ handlerPc = "finished"
  /\ exportPc = "rejected"
  /\ exportCalls = 1
  /\ Len(alerts) = 1
  /\ ~isGeneratingHighRes
=============================================================================
